---- MODULE Spec2Model ----
(***************************************************************************)
(* LADWP Grid Intelligence: the seasonal anomaly detection and future      *)
(* forecast scoring pipeline.                                              *)
(*                                                                         *)
(*   models/anomaly_detector.py        AnomalyDetector.engineer_features   *)
(*   models/baseline_patterns.py       BaselinePatterns.get_expected_demand*)
(*   models/future_anomaly_predictor.py FutureAnomalyPredictor             *)
(*   scripts/generate_all_predictions.py MonthlyPredictor                  *)
(*   train_all_monthly_models.py       MonthlyModelTrainer                 *)
(*   data/data_collector.py            HistoricalDataCollector             *)
(*                                                                         *)
(* Timestamps are whole hours counted from an epoch that is a Monday       *)
(* 00:00 on the first day of January.  Demand is in whole MW.  An anomaly  *)
(* score is in hundredths (score -65 stands for -0.65), so that            *)
(* |score| * 100 of the code is Abs(score) here.                           *)
(***************************************************************************)
EXTENDS Integers, Sequences, FiniteSets, TLC

VARIABLES
    now,             \* the wall clock, datetime.now(), in hours
    demand_db,       \* the demand table of ladwp_grid_data.db: a set of rows
    trained_models,  \* models/trained_models/: month -> the three artifact files
    trainer,         \* position of MonthlyModelTrainer.train_month_model
    baseline,        \* FutureAnomalyPredictor.baseline (patterns, or None)
    detector,        \* FutureAnomalyPredictor.anomaly_detector: the generic
                     \* demand model and scaler load_models() read at construction
    request,         \* the inputs of a behaviour's prediction calls: the demand
                     \* values of the forecast CAISO serves, hour by hour, and
                     \* the score the forest gives each forecast row
    result,          \* what the last prediction call returned and logged
    series,          \* feature engineering on its own: the caller's table
    features,        \* ... and the table engineer_features returned
    learner,         \* a BaselinePatterns object that learns the baseline:
                     \* its patterns, its patterns.json, its last call
    predictions_dir, \* models/predictions/: file name -> the batch written
    response,        \* what the API server answered last
    pipeline,        \* the generic detector's way from offline training to
                     \* a constructed predictor, and the price files of
                     \* models/trained_models/
    collector        \* a run of HistoricalDataCollector.collect_historical_prices
                     \* or collect_historical_demand: its loop over the dates

vars == <<now, demand_db, trained_models, trainer, baseline, detector, request,
          result, series, features, learner, predictions_dir, response, pipeline,
          collector>>

(***************************************************************************)
(* Bounds of the model.                                                    *)
(***************************************************************************)
MaxTime == 1        \* the clock runs over 0..MaxTime
MaxStore == 1       \* rows the demand table holds at most
MaxForecast == 2    \* points of a forecast the CAISO client returns at most
MaxPipeline == 1    \* ... at most when the whole pipeline runs next to it
MaxDaysBack == 2    \* days_back of a collection run at most
MaxAttempts == 2    \* fetches of one date that are counted
MaxSeries == 3      \* rows of a table handed to engineer_features on its own
MaxTrainRuns == 2   \* training runs started at most
MaxBatch == 3       \* points of a forecast whose batch is written, at most
DaysPerMonth == 30  \* days of a month of the model's calendar

(***************************************************************************)
(* Arithmetic helpers.                                                     *)
(***************************************************************************)
Abs(x) == IF x < 0 THEN -x ELSE x

Min2(a, b) == IF a <= b THEN a ELSE b

Max2(a, b) == IF a >= b THEN a ELSE b

RECURSIVE SeqSum(_)
SeqSum(s) == IF s = <<>> THEN 0 ELSE Head(s) + SeqSum(Tail(s))

RECURSIVE SeqMin(_)
SeqMin(s) == IF Len(s) = 1 THEN s[1] ELSE Min2(Head(s), SeqMin(Tail(s)))

RECURSIVE SeqMax(_)
SeqMax(s) == IF Len(s) = 1 THEN s[1] ELSE Max2(Head(s), SeqMax(Tail(s)))

(***************************************************************************)
(* Calendar of a timestamp (pandas .dt accessors).                         *)
(***************************************************************************)
HourOf(ts) == ts % 24

DayOf(ts) == ts \div 24

DayOfWeek(ts) == DayOf(ts) % 7

DayOfMonth(ts) == (DayOf(ts) % DaysPerMonth) + 1

MonthOf(ts) == ((DayOf(ts) \div DaysPerMonth) % 12) + 1

WeekOfYear(ts) == ((DayOf(ts) % (12 * DaysPerMonth)) \div 7) + 1

(***************************************************************************)
(* Cells of a feature table.  A cell is a number ("num"), a missing value  *)
(* ("nan") or an infinity ("inf", "-inf"); v is the payload of a number    *)
(* and a fixed zero of the column's shape otherwise.                       *)
(*   rolling_mean  <<sum, count>>            the mean sum / count          *)
(*   rolling_std   <<n*sumsq - sum^2, n*(n-1)>>  the variance; std is its  *)
(*                                            square root                  *)
(*   pct_change    <<cur - prev, prev>>      the quotient                  *)
(*   zscore        <<value*n - sum, n, variance num, variance den>>        *)
(***************************************************************************)
Num(x) == [kind |-> "num", v |-> x]

NaN(zero) == [kind |-> "nan", v |-> zero]

Inf(sign, zero) == [kind |-> IF sign < 0 THEN "-inf" ELSE "inf", v |-> zero]

IsNaN(c) == c.kind = "nan"

(***************************************************************************)
(* AnomalyDetector.engineer_features.  A table is a sequence of rows; the  *)
(* caller's table has the columns timestamp and demand_mw (the target      *)
(* column), with every value present.                                      *)
(***************************************************************************)
PriceWindow == 288

DemandWindow == 24

Window(target_col) == IF target_col = "price" THEN PriceWindow ELSE DemandWindow

TargetValues(df) == [i \in 1..Len(df) |-> df[i].demand_mw]

\* the rows a trailing window of w rows ending at row i covers (min_periods=1)
RollingSlice(vals, i, w) == SubSeq(vals, Max2(1, i - w + 1), i)

SumSq(s) == SeqSum([k \in 1..Len(s) |-> s[k] * s[k]])

rolling_mean(vals, i, w) ==
    LET s == RollingSlice(vals, i, w) IN Num(<<SeqSum(s), Len(s)>>)

\* the sample standard deviation (ddof = 1): missing on fewer than 2 rows
rolling_std(vals, i, w) ==
    LET s == RollingSlice(vals, i, w)
        n == Len(s)
    IN  IF n < 2 THEN NaN(<<0, 1>>)
        ELSE Num(<<n * SumSq(s) - SeqSum(s) * SeqSum(s), n * (n - 1)>>)

rolling_min(vals, i, w) == Num(SeqMin(RollingSlice(vals, i, w)))

rolling_max(vals, i, w) == Num(SeqMax(RollingSlice(vals, i, w)))

diff(vals, i) == IF i = 1 THEN NaN(0) ELSE Num(vals[i] - vals[i - 1])

pct_change(vals, i) ==
    IF i = 1 THEN NaN(<<0, 1>>)
    ELSE IF vals[i - 1] = 0
         THEN IF vals[i] = 0 THEN NaN(<<0, 1>>) ELSE Inf(vals[i], <<0, 1>>)
         ELSE Num(<<vals[i] - vals[i - 1], vals[i - 1]>>)

\* (value - rolling_mean) / (rolling_std + 1e-8)
zscore(value, mean, std) ==
    IF IsNaN(std) THEN NaN(<<0, 1, 0, 1>>)
    ELSE Num(<<value * mean.v[2] - mean.v[1], mean.v[2], std.v[1], std.v[2]>>)

\* fillna(method='bfill') on one column: a missing cell takes the next
\* present cell below it, and stays missing when there is none
RECURSIVE bfill(_)
bfill(col) ==
    IF col = <<>> THEN <<>>
    ELSE LET rest == bfill(Tail(col))
         IN  IF IsNaN(Head(col)) /\ rest # <<>>
             THEN <<rest[1]>> \o rest
             ELSE <<Head(col)>> \o rest

\* fillna(method='ffill') on one column: a missing cell takes the last
\* present cell above it
RECURSIVE ffill(_)
ffill(col) ==
    IF col = <<>> THEN <<>>
    ELSE LET n == Len(col)
             front == ffill(SubSeq(col, 1, n - 1))
         IN  IF IsNaN(col[n]) /\ front # <<>>
             THEN Append(front, front[n - 1])
             ELSE Append(front, col[n])

fillna(col) == ffill(bfill(col))

\* the columns engineer_features adds that can hold a missing value
FloatColumns ==
    {"demand_mw_rolling_mean", "demand_mw_rolling_std", "demand_mw_rolling_min",
     "demand_mw_rolling_max", "demand_mw_diff", "demand_mw_pct_change",
     "demand_mw_zscore"}

\* the table before the fill step: the copy of df with the feature columns
RawFeatures(df, target_col) ==
    LET vals == TargetValues(df)
        w == Window(target_col)
    IN  [i \in 1..Len(df) |->
          LET ts == df[i].timestamp
              mean == rolling_mean(vals, i, w)
              std == rolling_std(vals, i, w)
          IN  [timestamp |-> ts,
               demand_mw |-> vals[i],
               hour |-> HourOf(ts),
               day_of_week |-> DayOfWeek(ts),
               is_weekend |-> IF DayOfWeek(ts) \in {5, 6} THEN 1 ELSE 0,
               day_of_month |-> DayOfMonth(ts),
               hour_sin |-> <<"sin", HourOf(ts), 24>>,
               hour_cos |-> <<"cos", HourOf(ts), 24>>,
               dow_sin |-> <<"sin", DayOfWeek(ts), 7>>,
               dow_cos |-> <<"cos", DayOfWeek(ts), 7>>,
               month |-> MonthOf(ts),
               week_of_year |-> WeekOfYear(ts),
               is_summer |-> IF MonthOf(ts) \in {6, 7, 8, 9} THEN 1 ELSE 0,
               is_winter |-> IF MonthOf(ts) \in {12, 1, 2} THEN 1 ELSE 0,
               demand_mw_rolling_mean |-> mean,
               demand_mw_rolling_std |-> std,
               demand_mw_rolling_min |-> rolling_min(vals, i, w),
               demand_mw_rolling_max |-> rolling_max(vals, i, w),
               demand_mw_diff |-> diff(vals, i),
               demand_mw_pct_change |-> pct_change(vals, i),
               demand_mw_zscore |-> zscore(vals[i], mean, std)]]

Column(table, c) == [i \in 1..Len(table) |-> table[i][c]]

\* dropna() in place of the fill: the rows that hold a NaN are dropped
DropNaRows(table) ==
    LET keep == {i \in 1..Len(table) :
                    \A c \in FloatColumns : ~IsNaN(table[i][c])}
        F[i \in 0..Len(table)] ==
            IF i = 0 THEN <<>>
            ELSE IF i \in keep THEN Append(F[i - 1], table[i]) ELSE F[i - 1]
    IN  F[Len(table)]

\* df.fillna(method='bfill').fillna(method='ffill'), column by column
FillTable(table) ==
    LET filled == [c \in FloatColumns |-> fillna(Column(table, c))]
    IN  [i \in 1..Len(table) |->
            [c \in DOMAIN table[i] |->
                IF c \in FloatColumns THEN filled[c][i] ELSE table[i][c]]]

engineer_features(df, target_col) == FillTable(RawFeatures(df, target_col))

(***************************************************************************)
(* Feature engineering on its own: a caller hands a table that is sorted   *)
(* ascending by timestamp to engineer_features.                            *)
(***************************************************************************)
SeriesTimes == 0..MaxSeries

SeriesValues == {0, 2000, 2500}

\* the tables of n rows over SeriesTimes and SeriesValues, ascending
SortedTables(n) ==
    {df \in [1..n -> [timestamp : SeriesTimes, demand_mw : SeriesValues]] :
        \A i \in 1..(n - 1) : df[i].timestamp < df[i + 1].timestamp}

SeriesInputs == UNION {SortedTables(n) : n \in 1..MaxSeries}

NotEngineered == [done |-> FALSE, table |-> <<>>]

\* df = df.copy() ... return df: the caller's table is left as it was
Engineer ==
    /\ ~features.done
    /\ features' = [done |-> TRUE, table |-> engineer_features(series, "demand_mw")]
    /\ UNCHANGED <<collector, pipeline, predictions_dir, response, learner, now, demand_db, trained_models, trainer, baseline, detector, request,
                   result, series>>

(***************************************************************************)
(* The artifact files of models/trained_models/.  A training run writes    *)
(* three files per month: <month>_demand_anomaly_detector.pkl (the         *)
(* Isolation Forest), <month>_demand_scaler.pkl and                        *)
(* <month>_model_info.json.  "generic" names demand_anomaly_detector.pkl,  *)
(* demand_scaler.pkl and demand_model_info.json of the generic detector.   *)
(* run is the training run that wrote the file; offset is the forest's     *)
(* offset_, the score below which predict() labels a row -1.               *)
(***************************************************************************)
months ==
    <<"january", "february", "march", "april", "may", "june",
      "july", "august", "september", "october", "november", "december">>

MonthNames == {months[i] : i \in 1..12}

ArtifactNames == MonthNames \cup {"generic"}

NoFile == [exists |-> FALSE, run |-> 0, offset |-> 0, feature_columns |-> <<>>]

ModelFile(run, offset) ==
    [exists |-> TRUE, run |-> run, offset |-> offset, feature_columns |-> <<>>]

ScalerFile(run) ==
    [exists |-> TRUE, run |-> run, offset |-> 0, feature_columns |-> <<>>]

InfoFile(run, cols) ==
    [exists |-> TRUE, run |-> run, offset |-> 0, feature_columns |-> cols]

NoArtifact == [model |-> NoFile, scaler |-> NoFile, info |-> NoFile]

\* feature_cols of MonthlyModelTrainer.train_month_model
MonthFeatureColumns ==
    <<"hour_sin", "hour_cos", "dow_sin", "dow_cos", "is_weekend",
      "month", "week_of_year", "is_summer", "is_winter",
      "demand_mw",
      "demand_mw_rolling_mean", "demand_mw_rolling_std",
      "demand_mw_diff", "demand_mw_pct_change", "demand_mw_zscore">>

\* feature_cols of AnomalyDetector.train_demand_anomaly_detector
GenericFeatureColumns ==
    <<"hour_sin", "hour_cos", "dow_sin", "dow_cos", "is_weekend",
      "month", "week_of_year", "is_summer", "is_winter",
      "demand_mw",
      "demand_mw_diff", "demand_mw_pct_change">>

\* offset_ of a fitted forest, in hundredths
Offsets == {-50, -70}

\* the generic detector, trained (run 0) before the predictor is constructed
GenericArtifact ==
    [model |-> ModelFile(0, -50), scaler |-> ScalerFile(0),
     info |-> InfoFile(0, GenericFeatureColumns)]

(***************************************************************************)
(* The historical store: the demand table, timestamp its primary key.      *)
(***************************************************************************)
TailLimit == 48

RECURSIVE SortByTimestamp(_)
SortByTimestamp(rows) ==
    IF rows = {} THEN <<>>
    ELSE LET first == CHOOSE r \in rows : \A q \in rows : r.timestamp <= q.timestamp
         IN  <<first>> \o SortByTimestamp(rows \ {first})

\* SELECT ... ORDER BY timestamp DESC LIMIT 48, then sort_values('timestamp')
HistoricalTail(rows) ==
    LET all == SortByTimestamp(rows)
        n == Len(all)
    IN  SubSeq(all, Max2(1, n - TailLimit + 1), n)

(***************************************************************************)
(* BaselinePatterns.get_expected_demand on loaded patterns: the hourly     *)
(* statistics are keyed by the hour as a string, as json.load returns them.*)
(***************************************************************************)
HourStrings ==
    <<"0", "1", "2", "3", "4", "5", "6", "7", "8", "9", "10", "11",
      "12", "13", "14", "15", "16", "17", "18", "19", "20", "21", "22", "23">>

\* str(hour)
str(hour) == HourStrings[hour + 1]

NoHours == [h \in {} |-> [mean |-> 0]]

NoBaseline == [loaded |-> FALSE, hourly |-> NoHours, overall |-> [mean |-> 0]]

Patterns(hourly, overall) == [loaded |-> TRUE, hourly |-> hourly, overall |-> overall]

get_expected_demand(patterns, hour) ==
    IF str(hour) \in DOMAIN patterns.hourly
    THEN patterns.hourly[str(hour)]
    ELSE patterns.overall

(***************************************************************************)
(* Scoring of the forecast rows (predict_future_anomalies, lines 165-194). *)
(***************************************************************************)
\* month_model.predict(X_scaled) == -1: IsolationForest labels a row an
\* outlier when score_samples(X) - offset_ < 0
IsOutlier(score, offset) == score < offset

clip(x, lo, hi) == IF x < lo THEN lo ELSE IF x > hi THEN hi ELSE x

\* the confidence without np.abs: the raw score, clipped
ConfidenceNoAbs(score) == clip(score, 0, 100)

\* np.abs(anomaly_scores) * 100, then .clip(0, 100)
Confidence(score) == clip(Abs(score), 0, 100)

\* the severity with the boundaries 80 and 60 in the upper tier
calculate_severity_inclusive(row) ==
    IF ~row.is_anomaly THEN "normal"
    ELSE IF row.confidence >= 80 THEN "critical"
    ELSE IF row.confidence >= 60 THEN "high"
    ELSE "medium"

calculate_severity(row) ==
    IF ~row.is_anomaly THEN "normal"
    ELSE IF row.confidence > 80 THEN "critical"
    ELSE IF row.confidence > 60 THEN "high"
    ELSE "medium"

\* the forecast row with is_anomaly, anomaly_score, confidence and severity
ScoreRow(row, score, offset) ==
    LET scored == [timestamp |-> row.timestamp,
                   demand_mw |-> row.demand_mw,
                   is_anomaly |-> IsOutlier(score, offset),
                   anomaly_score |-> score,
                   confidence |-> Confidence(score)]
    IN  [timestamp |-> scored.timestamp,
         demand_mw |-> scored.demand_mw,
         is_anomaly |-> scored.is_anomaly,
         anomaly_score |-> scored.anomaly_score,
         confidence |-> scored.confidence,
         severity |-> calculate_severity(scored)]

(***************************************************************************)
(* The baseline comparison filter (lines 198-221), one flagged row.        *)
(* deviation_pct < 30 is deviation_mw * 100 < 30 * mean, the mean being    *)
(* positive.                                                               *)
(***************************************************************************)
PctThreshold == 30

MwThreshold == 800

WithinNormalRange(demand_mw, mean) ==
    LET deviation_mw == Abs(demand_mw - mean)
    IN  \/ deviation_mw * 100 < PctThreshold * mean
        \/ deviation_mw < MwThreshold

\* the filter deciding the flag of every row, flagged or not, from the
\* deviation alone
FilterRowRecompute(row, patterns) ==
    LET expected == get_expected_demand(patterns, HourOf(row.timestamp))
    IN  IF expected.mean > 0
        THEN IF WithinNormalRange(row.demand_mw, expected.mean)
             THEN [row EXCEPT !.is_anomaly = FALSE, !.severity = "normal", !.confidence = 0]
             ELSE [row EXCEPT !.is_anomaly = TRUE]
        ELSE row

\* the filter lowering the severity of a row within the normal range by one
\* tier, the flag going with the last tier
FilterRowDowngrade(row, patterns) ==
    LET expected == get_expected_demand(patterns, HourOf(row.timestamp))
        lower == CASE row.severity = "critical" -> "high"
                   [] row.severity = "high" -> "medium"
                   [] OTHER -> "normal"
    IN  IF /\ row.is_anomaly
           /\ expected.mean > 0
           /\ WithinNormalRange(row.demand_mw, expected.mean)
        THEN [row EXCEPT !.is_anomaly = (lower # "normal"), !.severity = lower,
                         !.confidence = IF lower = "normal" THEN 0 ELSE @]
        ELSE row

\* the filter leaving the confidence of a suppressed row as scored
FilterRowKeepConfidence(row, patterns) ==
    LET expected == get_expected_demand(patterns, HourOf(row.timestamp))
    IN  IF /\ row.is_anomaly
           /\ expected.mean > 0
           /\ WithinNormalRange(row.demand_mw, expected.mean)
        THEN [row EXCEPT !.is_anomaly = FALSE, !.severity = "normal"]
        ELSE row

\* the filter removing the flag of a suppressed row and leaving its severity
FilterRowKeepSeverity(row, patterns) ==
    LET expected == get_expected_demand(patterns, HourOf(row.timestamp))
    IN  IF /\ row.is_anomaly
           /\ expected.mean > 0
           /\ WithinNormalRange(row.demand_mw, expected.mean)
        THEN [row EXCEPT !.is_anomaly = FALSE, !.confidence = 0]
        ELSE row

FilterRow(row, patterns) ==
    LET expected == get_expected_demand(patterns, HourOf(row.timestamp))
    IN  IF /\ row.is_anomaly
           /\ expected.mean > 0
           /\ WithinNormalRange(row.demand_mw, expected.mean)
        THEN [row EXCEPT !.is_anomaly = FALSE, !.severity = "normal", !.confidence = 0]
        ELSE row

\* for idx, row in forecast_df[forecast_df['is_anomaly']].iterrows(): ...
BaselineFilter(batch, patterns) ==
    [i \in 1..Len(batch) |-> FilterRow(batch[i], patterns)]

(***************************************************************************)
(* What a prediction call returns and logs.                                *)
(*   outcome     "ok": a scored batch was returned; "no_forecast": the     *)
(*               empty DataFrame was returned; "model_not_found": None was *)
(*               returned after the error log; otherwise the exception the *)
(*               call raised                                               *)
(*   scored_with the file (artifact name, run) each part of the scorer     *)
(*               came from                                                 *)
(*   combined    the timestamps of combined_df, in its row order           *)
(*   feature_cols  the columns the matrix X handed to the scaler was built *)
(*               from, in its column order                                 *)
(*   defaulted   the columns of X that were filled with a default value    *)
(***************************************************************************)
NoPart == <<"", 0>>

NoParts == [model |-> NoPart, scaler |-> NoPart, info |-> NoPart]

\* no predictions file written; model_month "" is a file without that key
NoSave ==
    [written |-> FALSE, model_month |-> "", total_points |-> 0,
     anomalies_detected |-> 0, anomaly_rate |-> <<0, 1>>, predictions |-> <<>>]

\* the files of models/predictions/: <month>_predictions.json,
\* latest_predictions.json and november_mock_predictions.json
PredictionFiles == MonthNames \cup {"latest", "november_mock"}

NoPredictions == [f \in PredictionFiles |-> NoSave]

NoResult ==
    [call |-> "", month |-> "", outcome |-> "none", batch |-> <<>>, scored |-> <<>>,
     scored_with |-> NoParts, logged |-> {}, combined |-> <<>>, n_historical |-> 0,
     saved |-> NoSave, feature_cols |-> <<>>, defaulted |-> {}]

Failed(call, month, outcome, logged, combined, n_historical) ==
    [call |-> call, month |-> month, outcome |-> outcome, batch |-> <<>>,
     scored |-> <<>>, scored_with |-> NoParts, logged |-> logged,
     combined |-> combined, n_historical |-> n_historical, saved |-> NoSave,
     feature_cols |-> <<>>, defaulted |-> {}]

\* forecast_df['is_anomaly'].sum()
CountAnomalies(rows) == Cardinality({i \in 1..Len(rows) : rows[i].is_anomaly})

\* round(p / q, 0) of Python, to the nearest integer and to the even one at
\* a tie; p >= 0, q > 0
round(p, q) ==
    LET f == p \div q
        r == p % q
    IN  IF 2 * r < q THEN f
        ELSE IF 2 * r > q THEN f + 1
        ELSE IF f % 2 = 0 THEN f ELSE f + 1

\* the summary counting the rows that have a confidence above 0
save_predictions_by_confidence(forecast_df) ==
    LET n_anomalies == Cardinality({i \in 1..Len(forecast_df) :
                                       forecast_df[i].confidence > 0})
        total_points == Len(forecast_df)
    IN  [written |-> TRUE,
         model_month |-> "",
         total_points |-> total_points,
         anomalies_detected |-> n_anomalies,
         anomaly_rate |-> IF total_points > 0
                          THEN <<round(n_anomalies * 100 * 100, total_points), 100>>
                          ELSE <<0, 1>>,
         predictions |-> [i \in 1..Len(forecast_df) |->
                            [timestamp |-> forecast_df[i].timestamp,
                             is_anomaly |-> forecast_df[i].is_anomaly]]]

\* FutureAnomalyPredictor.save_predictions: the dict it dumps; a rate is the
\* fraction <<numerator, denominator>>, round(x, 2) a number of hundredths
save_predictions(forecast_df) ==
    LET n_anomalies == CountAnomalies(forecast_df)
        total_points == Len(forecast_df)
    IN  [written |-> TRUE,
         model_month |-> "",
         total_points |-> total_points,
         anomalies_detected |-> n_anomalies,
         anomaly_rate |-> IF total_points > 0
                          THEN <<round(n_anomalies * 100 * 100, total_points), 100>>
                          ELSE <<0, 1>>,
         predictions |-> [i \in 1..Len(forecast_df) |->
                            [timestamp |-> forecast_df[i].timestamp,
                             is_anomaly |-> forecast_df[i].is_anomaly]]]

\* predictions_data of predict_with_model (lines 157-184)
predictions_data(month_name, forecast_with_features) ==
    LET n_anomalies == CountAnomalies(forecast_with_features)
        total_points == Len(forecast_with_features)
    IN  [written |-> TRUE,
         model_month |-> month_name,
         total_points |-> total_points,
         anomalies_detected |-> n_anomalies,
         anomaly_rate |-> IF total_points > 0
                          THEN <<n_anomalies * 100, total_points>>
                          ELSE <<0, 1>>,
         predictions |-> [i \in 1..Len(forecast_with_features) |->
                            [timestamp |-> forecast_with_features[i].timestamp,
                             is_anomaly |-> forecast_with_features[i].is_anomaly]]]

\* X = forecast_df[feature_cols]: a column the table lacks raises KeyError
MissingColumns(table, feature_cols) ==
    {i \in 1..Len(feature_cols) : \E r \in 1..Len(table) : feature_cols[i] \notin DOMAIN table[r]}

\* sklearn rejects a matrix that holds NaN or infinity with ValueError
HasNonFinite(table, feature_cols) ==
    \E r \in 1..Len(table) : \E i \in 1..Len(feature_cols) :
        /\ feature_cols[i] \in FloatColumns
        /\ table[r][feature_cols[i]].kind # "num"

\* lines 165-194 and 139-155 of generate_all_predictions.py: select the
\* persisted feature columns, scale, score; scores[i] is score_samples of row i
ScoreForecast(forecast_rows, feature_cols, offset, scores) ==
    [i \in 1..Len(forecast_rows) |-> ScoreRow(forecast_rows[i], scores[i], offset)]

\* the month name taken once, when the process started (hour 0)
current_month_at_start == months[MonthOf(0)]

\* datetime.now().strftime('%B').lower()
current_month == months[MonthOf(now)]

HasMonthModel(month) ==
    /\ trained_models[month].model.exists
    /\ trained_models[month].scaler.exists
    /\ trained_models[month].info.exists

\* lines 125-137: concat, engineer_features on the combined frame, then
\* combined_df.iloc[len(historical_df):]
ForecastFeatures(historical_df, forecast_df) ==
    LET combined_df == engineer_features(historical_df \o forecast_df, "demand_mw")
    IN  SubSeq(combined_df, Len(historical_df) + 1, Len(combined_df))

(***************************************************************************)
(* FutureAnomalyPredictor.predict_future_anomalies; forecast_df is what    *)
(* fetch_future_forecast returned (sorted, every timestamp after now).     *)
(***************************************************************************)
predict_future_anomalies(forecast_df, scores) ==
    LET call == "predict_future_anomalies"
        historical_df == HistoricalTail(demand_db)
        concat == historical_df \o forecast_df
        combined_df == engineer_features(concat, "demand_mw")
        combined == [i \in 1..Len(concat) |-> concat[i].timestamp]
        n_hist == Len(historical_df)
        forecast_rows == ForecastFeatures(historical_df, forecast_df)
        use_month == HasMonthModel(current_month)
        model == IF use_month THEN trained_models[current_month].model
                 ELSE detector.demand_model
        scaler == IF use_month THEN trained_models[current_month].scaler
                  ELSE detector.demand_scaler
        info == IF use_month THEN trained_models[current_month].info
                ELSE trained_models["generic"].info
        name == IF use_month THEN current_month ELSE "generic"
        logged == IF use_month THEN {"using_month_model"} ELSE {"fallback_warning"}
        feature_cols == info.feature_columns
        scored == ScoreForecast(forecast_rows, feature_cols, model.offset, scores)
    IN  IF forecast_df = <<>>
        THEN Failed(call, "", "no_forecast", {"no_forecast_error"}, <<>>, 0)
        ELSE IF ~info.exists
        THEN Failed(call, current_month, "FileNotFoundError", logged, combined, n_hist)
        ELSE IF MissingColumns(forecast_rows, feature_cols) # {}
        THEN Failed(call, current_month, "KeyError", logged, combined, n_hist)
        ELSE IF HasNonFinite(forecast_rows, feature_cols)
        THEN Failed(call, current_month, "ValueError", logged, combined, n_hist)
        ELSE [call |-> call,
              month |-> current_month,
              outcome |-> "ok",
              batch |-> IF baseline.loaded THEN BaselineFilter(scored, baseline)
                        ELSE scored,
              scored |-> scored,
              scored_with |-> [model |-> <<name, model.run>>,
                               scaler |-> <<name, scaler.run>>,
                               info |-> <<name, info.run>>],
              logged |-> logged \cup (IF baseline.loaded THEN {"baseline_filter"}
                                      ELSE {"no_baseline_warning"}),
              combined |-> combined,
              n_historical |-> n_hist,
              saved |-> NoSave,
              feature_cols |-> feature_cols,
              defaulted |-> {}]

(***************************************************************************)
(* MonthlyPredictor.load_model and predict_with_model                      *)
(* (scripts/generate_all_predictions.py); generate_all calls it for each   *)
(* month name with the forecast it fetched, which is not empty.            *)
(***************************************************************************)
load_model(month_name) ==
    IF ~trained_models[month_name].model.exists THEN "None"
    ELSE IF ~trained_models[month_name].scaler.exists THEN "FileNotFoundError"
    ELSE IF ~trained_models[month_name].info.exists THEN "FileNotFoundError"
    ELSE "loaded"

predict_with_model(month_name, forecast_df, scores) ==
    LET call == "predict_with_model"
        loaded == load_model(month_name)
        files == trained_models[month_name]
        historical_df == HistoricalTail(demand_db)
        concat == historical_df \o forecast_df
        combined_df == engineer_features(concat, "demand_mw")
        combined == [i \in 1..Len(concat) |-> concat[i].timestamp]
        n_hist == Len(historical_df)
        forecast_with_features == SubSeq(combined_df, n_hist + 1, Len(combined_df))
        feature_cols == files.info.feature_columns
        scored == ScoreForecast(forecast_with_features, feature_cols,
                                files.model.offset, scores)
    IN  IF loaded = "None"
        THEN Failed(call, month_name, "model_not_found", {"model_not_found_error"}, <<>>, 0)
        ELSE IF loaded = "FileNotFoundError"
        THEN Failed(call, month_name, "FileNotFoundError", {}, <<>>, 0)
        ELSE IF MissingColumns(forecast_with_features, feature_cols) # {}
        THEN Failed(call, month_name, "KeyError", {}, combined, n_hist)
        ELSE IF HasNonFinite(forecast_with_features, feature_cols)
        THEN Failed(call, month_name, "ValueError", {}, combined, n_hist)
        ELSE [call |-> call,
              month |-> month_name,
              outcome |-> "ok",
              batch |-> scored,
              scored |-> scored,
              scored_with |-> [model |-> <<month_name, files.model.run>>,
                               scaler |-> <<month_name, files.scaler.run>>,
                               info |-> <<month_name, files.info.run>>],
              logged |-> {},
              combined |-> combined,
              n_historical |-> n_hist,
              saved |-> predictions_data(month_name, scored),
              feature_cols |-> feature_cols,
              defaulted |-> {}]

(***************************************************************************)
(* The clock.                                                              *)
(***************************************************************************)
Tick ==
    /\ now < MaxTime
    /\ now' = now + 1
    /\ UNCHANGED <<collector, pipeline, predictions_dir, response, learner, demand_db, trained_models, trainer, baseline, detector, request,
                   result, series, features>>

\* the calendar rolls over: the first hour of the next month begins, the
\* processes started earlier still running
MaxRollovers == 2

MonthBegins ==
    /\ now < MaxRollovers * DaysPerMonth * 24
    /\ now' = ((DayOf(now) \div DaysPerMonth) + 1) * DaysPerMonth * 24
    /\ UNCHANGED <<collector, pipeline, predictions_dir, response, learner, demand_db, trained_models, trainer, baseline, detector, request,
                   result, series, features>>

(***************************************************************************)
(* HistoricalDataCollector._save_demand_to_db: the rows of df replace the  *)
(* rows of the table with the same timestamp.  collect_historical_demand   *)
(* asks for each day from days_back days ago up to the end of today, so a  *)
(* row may lie well before now or after it.                                *)
(***************************************************************************)
SaveOffsets == {-30, 0, 2}

StoreValues == {2000}

_save_demand_to_db(df) ==
    {r \in demand_db : \A d \in df : d.timestamp # r.timestamp} \cup df

SaveDemandToDb ==
    /\ \E o \in SaveOffsets : \E v \in StoreValues :
          LET df == {[timestamp |-> now + o, demand_mw |-> v]}
          IN  /\ Cardinality(_save_demand_to_db(df)) <= MaxStore
              /\ demand_db' = _save_demand_to_db(df)
    /\ UNCHANGED <<collector, pipeline, predictions_dir, response, learner, now, trained_models, trainer, baseline, detector, request, result,
                   series, features>>

(***************************************************************************)
(* MonthlyModelTrainer.train_all and train_month_model.  The trainer runs  *)
(* as a process of its own next to the predictors; each file it writes is  *)
(* a step.  n is the number of rows load_month_data returned.              *)
(***************************************************************************)
MinTrainingRecords == 100

RecordCounts == {0, MinTrainingRecords - 1, MinTrainingRecords}

\* records is len(df) of the last call of train_month_model
TrainerIdle ==
    [pc |-> "idle", month_num |-> 1, calls |-> 0, records |-> 0, offset |-> 0,
     results |-> <<>>]

\* the loop left at the first month that did not succeed
NextMonthUntilFailure(status) ==
    [trainer EXCEPT !.pc = IF trainer.month_num = 12 \/ status # "Success"
                           THEN "done" ELSE "loop",
                    !.month_num = trainer.month_num + 1,
                    !.offset = 0,
                    !.results = Append(trainer.results, status)]

\* results[month_name] = ..., then the next month of range(1, 13)
NextMonth(status) ==
    [trainer EXCEPT !.pc = IF trainer.month_num = 12 THEN "done" ELSE "loop",
                    !.month_num = trainer.month_num + 1,
                    !.offset = 0,
                    !.results = Append(trainer.results, status)]

\* main(): a run of train_all begins (a run that was interrupted between
\* two months may be started again)
TrainAllStart ==
    /\ trainer.pc \in {"idle", "loop", "done"}
    /\ trainer.calls < MaxTrainRuns
    /\ trainer' = [trainer EXCEPT !.pc = "loop", !.month_num = 1, !.results = <<>>]
    /\ UNCHANGED <<collector, pipeline, predictions_dir, response, learner, now, demand_db, trained_models, baseline, detector, request, result,
                   series, features>>

\* the check of the record count made after the model file was written
TrainMonthInsufficientAfterSave ==
    /\ trainer.pc = "loop"
    /\ trainer.calls < MaxTrainRuns
    /\ \E n \in RecordCounts : \E offset \in Offsets :
          /\ n < MinTrainingRecords
          /\ trainer' = [NextMonth("Failed") EXCEPT !.calls = trainer.calls + 1,
                                                    !.records = n]
          /\ trained_models' =
                [trained_models EXCEPT ![months[trainer.month_num]].model =
                    ModelFile(trainer.calls + 1, offset)]
    /\ UNCHANGED <<collector, pipeline, predictions_dir, response, learner, now, demand_db, baseline, detector, request, result, series,
                   features>>

\* if df is None or len(df) < 100: return False
TrainMonthInsufficient ==
    /\ trainer.pc = "loop"
    /\ trainer.calls < MaxTrainRuns
    /\ \E n \in RecordCounts :
          /\ n < MinTrainingRecords
          /\ trainer' = [NextMonth("Failed") EXCEPT !.calls = trainer.calls + 1,
                                                    !.records = n]
    /\ UNCHANGED <<collector, pipeline, predictions_dir, response, learner, now, demand_db, trained_models, baseline, detector, request, result,
                   series, features>>

\* fit, then pickle.dump(model, f) into <month>_demand_anomaly_detector.pkl
TrainMonthSaveModel ==
    /\ trainer.pc = "loop"
    /\ trainer.calls < MaxTrainRuns
    /\ \E n \in RecordCounts : \E offset \in Offsets :
          /\ n >= MinTrainingRecords
          /\ trainer' = [trainer EXCEPT !.pc = "model_saved",
                                        !.calls = trainer.calls + 1,
                                        !.records = n,
                                        !.offset = offset]
          /\ trained_models' =
                [trained_models EXCEPT ![months[trainer.month_num]].model =
                    ModelFile(trainer.calls + 1, offset)]
    /\ UNCHANGED <<collector, pipeline, predictions_dir, response, learner, now, demand_db, baseline, detector, request, result, series,
                   features>>

\* the scaler written to demand_scaler.pkl, the file of the generic detector
TrainMonthSaveGenericScaler ==
    /\ trainer.pc = "model_saved"
    /\ trainer' = [trainer EXCEPT !.pc = "scaler_saved"]
    /\ trained_models' =
          [trained_models EXCEPT !["generic"].scaler = ScalerFile(trainer.calls)]
    /\ UNCHANGED <<collector, pipeline, predictions_dir, response, learner, now, demand_db, baseline, detector, request, result, series,
                   features>>

\* pickle.dump(scaler, f) into <month>_demand_scaler.pkl
TrainMonthSaveScaler ==
    /\ trainer.pc = "model_saved"
    /\ trainer' = [trainer EXCEPT !.pc = "scaler_saved"]
    /\ trained_models' =
          [trained_models EXCEPT ![months[trainer.month_num]].scaler =
              ScalerFile(trainer.calls)]
    /\ UNCHANGED <<collector, pipeline, predictions_dir, response, learner, now, demand_db, baseline, detector, request, result, series,
                   features>>

\* json.dump(model_info, f) into <month>_model_info.json; return True
TrainMonthSaveInfo ==
    /\ trainer.pc = "scaler_saved"
    /\ trainer' = NextMonth("Success")
    /\ trained_models' =
          [trained_models EXCEPT ![months[trainer.month_num]].info =
              InfoFile(trainer.calls, MonthFeatureColumns)]
    /\ UNCHANGED <<collector, pipeline, predictions_dir, response, learner, now, demand_db, baseline, detector, request, result, series,
                   features>>

\* except Exception as e: results[month_name] = f'Error: {e}': the call
\* raised after the check of the record count (features, scaling, fit) or
\* while it wrote one of its files
TrainMonthError ==
    /\ \/ /\ trainer.pc = "loop"
          /\ trainer.calls < MaxTrainRuns
          /\ \E n \in RecordCounts :
                /\ n >= MinTrainingRecords
                /\ trainer' = [NextMonth("Error") EXCEPT !.calls = trainer.calls + 1,
                                                         !.records = n]
       \/ /\ trainer.pc \in {"model_saved", "scaler_saved"}
          /\ trainer' = NextMonth("Error")
    /\ UNCHANGED <<collector, pipeline, predictions_dir, response, learner, now, demand_db, trained_models, baseline, detector, request, result,
                   series, features>>

(***************************************************************************)
(* MonthlyModelTrainer.load_month_data.  A row of the demand table holds   *)
(* its timestamp as text; text tells how the writer formatted it:          *)
(*   "offset_colon"   str(Timestamp) of collect_all_months.py, the Pacific *)
(*                    wall time followed by -08:00                         *)
(*   "offset_digits"  strftime('%Y-%m-%d %H:%M:%S%z') of                   *)
(*                    _save_demand_to_db, the wall time followed by -0800  *)
(* The timestamp of a row is its Pacific wall time in hours; UTC is        *)
(* UtcOffset hours ahead of it.                                            *)
(***************************************************************************)
UtcOffset == 8

\* CAST(strftime('%m', timestamp) AS INTEGER): SQLite reads an offset
\* written +-HH:MM and gives the month of the UTC time; it reads no offset
\* written without the colon and gives NULL (0 here)
sql_month(row) ==
    IF row.text = "offset_colon" THEN MonthOf(row.timestamp + UtcOffset) ELSE 0

\* load_month_data(month_num): the rows the query selects, ORDER BY
\* timestamp, converted to America/Los_Angeles; None (here <<>>) if empty
load_month_data(month_num) ==
    LET df == SortByTimestamp({r \in demand_db : sql_month(r) = month_num})
    IN  [i \in 1..Len(df) |-> [timestamp |-> df[i].timestamp, demand_mw |-> df[i].demand_mw]]

LoadMonthData ==
    /\ trainer.pc = "loop"
    /\ series' = load_month_data(trainer.month_num)
    /\ UNCHANGED <<collector, pipeline, predictions_dir, response, learner, now, demand_db, trained_models, trainer, baseline, detector, request,
                   result, features>>

(***************************************************************************)
(* Offline training of the generic detector and the construction of the    *)
(* predictor: steps 3 and 4 of retrain_all.py.                             *)
(*   pc            "start": before models/anomaly_detector.py ran;         *)
(*                 "trained": its main() returned; "constructed":          *)
(*                 FutureAnomalyPredictor() returned; "failed": it raised  *)
(*   prices        rows of the prices table (0 also when there is no table)*)
(*   price_model   price_anomaly_detector.pkl exists                       *)
(*   price_scaler  price_scaler.pkl exists                                 *)
(*   error         the exception the constructor raised                    *)
(***************************************************************************)
PredictorReady ==
    [pc |-> "constructed", prices |-> 0, price_model |-> TRUE, price_scaler |-> TRUE,
     error |-> ""]

\* main() of anomaly_detector.py: train_price_anomaly_detector only when
\* prices_df is not empty, train_demand_anomaly_detector always; each
\* writes its model, its scaler and its feature info
TrainAnomalyDetectors ==
    /\ pipeline.pc = "start"
    /\ \E offset \in Offsets :
          trained_models' =
              [trained_models EXCEPT !["generic"] =
                  [model |-> ModelFile(0, offset), scaler |-> ScalerFile(0),
                   info |-> InfoFile(0, GenericFeatureColumns)]]
    /\ pipeline' =
          IF pipeline.prices > 0
          THEN [pipeline EXCEPT !.pc = "trained", !.price_model = TRUE, !.price_scaler = TRUE]
          ELSE [pipeline EXCEPT !.pc = "trained"]
    /\ UNCHANGED <<collector, predictions_dir, response, learner, now, demand_db, trainer, baseline, detector,
                   request, result, series, features>>

\* AnomalyDetector.load_models(): the four files are opened in turn, price
\* model, price scaler, demand model, demand scaler; open() raises
\* FileNotFoundError on the first that is missing
load_models(files, prices) ==
    IF /\ prices.price_model
       /\ prices.price_scaler
       /\ files["generic"].model.exists
       /\ files["generic"].scaler.exists
    THEN [error |-> "",
          detector |-> [demand_model |-> files["generic"].model,
                        demand_scaler |-> files["generic"].scaler]]
    ELSE [error |-> "FileNotFoundError", detector |-> detector]

\* FutureAnomalyPredictor(): CAISOClient(), AnomalyDetector(), load_models(),
\* then the baseline: BaselinePatterns().load_patterns(), None when that
\* raises (patterns.json being there or not is the baseline of the
\* behaviour)
ConstructPredictor ==
    /\ pipeline.pc = "trained"
    /\ LET loaded == load_models(trained_models, pipeline)
       IN  /\ detector' = loaded.detector
           /\ pipeline' = [pipeline EXCEPT
                              !.pc = IF loaded.error = "" THEN "constructed" ELSE "failed",
                              !.error = loaded.error]
    /\ UNCHANGED <<collector, predictions_dir, response, learner, now, demand_db, trained_models, trainer,
                   baseline, request, result, series, features>>

(***************************************************************************)
(* HistoricalDataCollector.collect_historical_prices and                   *)
(* collect_historical_demand: the loop over the dates start_date..end_date.*)
(* Dates are days counted from start_date, so end_date is days_back.       *)
(*   kind          "prices" or "demand": which of the two methods runs     *)
(*   pc            "idle", "loop" (at the while), "done" (returned)        *)
(*   current_date  the date the loop is at                                 *)
(*   end_date      the last date of the range                              *)
(*   attempts      date -> the fetches made for it, counted up to          *)
(*                 MaxAttempts                                             *)
(*   all_data      the dates whose frame was appended to all_data          *)
(***************************************************************************)
CollectDates == 0..MaxDaysBack

CollectorIdle ==
    [kind |-> "", pc |-> "idle", current_date |-> 0, end_date |-> 0,
     attempts |-> [d \in CollectDates |-> 0], all_data |-> {}]

Attempted(date) ==
    [collector.attempts EXCEPT ![date] = IF @ < MaxAttempts THEN @ + 1 ELSE @]

\* end_date = today, start_date = end_date - days_back, all_data = [],
\* current_date = start_date
CollectStart ==
    /\ collector.pc = "idle"
    /\ \E kind \in {"prices", "demand"} : \E days_back \in CollectDates :
          collector' = [CollectorIdle EXCEPT !.kind = kind, !.pc = "loop",
                                             !.end_date = days_back]
    /\ UNCHANGED <<pipeline, predictions_dir, response, learner, now, demand_db, trained_models,
                   trainer, baseline, detector, request, result, series, features>>

\* the try block ran to its end: the fetch returned a frame, which is
\* appended unless it is None or empty; current_date += timedelta(days=1)
CollectDate ==
    /\ collector.pc = "loop"
    /\ collector.current_date <= collector.end_date
    /\ \E has_data \in BOOLEAN :
          collector' =
              [collector EXCEPT
                  !.attempts = Attempted(collector.current_date),
                  !.all_data = IF has_data THEN @ \cup {collector.current_date} ELSE @,
                  !.current_date = @ + 1]
    /\ UNCHANGED <<pipeline, predictions_dir, response, learner, now, demand_db, trained_models,
                   trainer, baseline, detector, request, result, series, features>>

\* except Exception as e: logger.error(...); continue: the fetch or the
\* handling of its frame raised before current_date was advanced, and the
\* loop goes back to the while with the same date
CollectDateError ==
    /\ collector.pc = "loop"
    /\ collector.current_date <= collector.end_date
    /\ collector' = [collector EXCEPT !.attempts = Attempted(collector.current_date)]
    /\ UNCHANGED <<pipeline, predictions_dir, response, learner, now, demand_db, trained_models,
                   trainer, baseline, detector, request, result, series, features>>

CollectedDemand == 2500

\* the loop is left; if all_data: the frames are saved (for demand:
\* _save_demand_to_db deletes the rows of the same timestamps and appends)
CollectReturn ==
    /\ collector.pc = "loop"
    /\ collector.current_date > collector.end_date
    /\ collector' = [collector EXCEPT !.pc = "done"]
    /\ demand_db' =
          IF collector.kind = "demand"
          THEN LET stamps == {d * 24 : d \in collector.all_data}
               IN  {r \in demand_db : r.timestamp \notin stamps}
                      \cup {[timestamp |-> t, demand_mw |-> CollectedDemand] : t \in stamps}
          ELSE demand_db
    /\ UNCHANGED <<pipeline, predictions_dir, response, learner, now, trained_models,
                   trainer, baseline, detector, request, result, series, features>>

(***************************************************************************)
(* The prediction calls.  The forecast the CAISO client returns holds one  *)
(* point per hour after now; the scorer's score of each row is drawn.      *)
(***************************************************************************)
Forecast(vals) ==
    [i \in 1..Len(vals) |-> [timestamp |-> now + i, demand_mw |-> vals[i]]]

Tuples(S, n) == UNION {[1..k -> S] : k \in 0..n}

Requests(values, scores, n) ==
    {[values |-> v, scores |-> sc] : v \in Tuples(values, n), sc \in Tuples(scores, n)}

PredictFutureAnomalies ==
    /\ pipeline.pc = "constructed"
    /\ result' = predict_future_anomalies(Forecast(request.values), request.scores)
    /\ UNCHANGED <<collector, pipeline, predictions_dir, response, learner, now, demand_db, trained_models, trainer, baseline, detector,
                   request, series, features>>

\* main() of future_anomaly_predictor.py: the batch predict_future_anomalies
\* returned is saved to latest_predictions.json
SavePredictions ==
    /\ result.call = "predict_future_anomalies"
    /\ result.outcome = "ok"
    /\ ~result.saved.written
    /\ result' = [result EXCEPT !.saved = save_predictions(result.batch)]
    /\ predictions_dir' = [predictions_dir EXCEPT !["latest"] = save_predictions(result.batch)]
    /\ UNCHANGED <<collector, pipeline, response, learner, now, demand_db, trained_models, trainer, baseline, detector,
                   request, series, features>>

\* one round of the loop of MonthlyPredictor.generate_all, which returns
\* before the loop when get_forecast gave no point
PredictWithModel ==
    /\ \E month_name \in MonthNames :
          /\ result' = IF request.values = <<>>
                       THEN Failed("generate_all", "", "no_forecast",
                                   {"no_forecast_error"}, <<>>, 0)
                       ELSE predict_with_model(month_name, Forecast(request.values),
                                               request.scores)
          /\ predictions_dir' = IF result'.saved.written
                                THEN [predictions_dir EXCEPT ![month_name] = result'.saved]
                                ELSE predictions_dir
    /\ UNCHANGED <<collector, pipeline, response, learner, now, demand_db, trained_models, trainer, baseline, detector,
                   request, series, features>>

(***************************************************************************)
(* scripts/generate_mock_november_data.py: prepare_features builds its own *)
(* feature table from the mock data points, run_november_model scores it   *)
(* with the november model, save_mock_predictions writes the batch.        *)
(***************************************************************************)
\* start_time = datetime(2025, 11, 1, 12, 0, 0): noon of November 1st
MockStart == (10 * DaysPerMonth) * 24 + 12

\* generate_november_demand_pattern: one point an hour from start_time
MockPoints(vals) ==
    [i \in 1..Len(vals) |-> [timestamp |-> MockStart + (i - 1), demand_mw |-> vals[i]]]

\* .fillna(0) of one cell
fillna0(cell, zero) == IF IsNaN(cell) THEN Num(zero) ELSE cell

\* df['demand_mw'].shift(k).fillna(df['demand_mw'].iloc[0])
lag(vals, i, k) == IF i > k THEN vals[i - k] ELSE vals[1]

\* the table of prepare_features before the missing features are added
MockFeatures(data_points) ==
    LET vals == TargetValues(data_points)
    IN  [i \in 1..Len(data_points) |->
          LET ts == data_points[i].timestamp
              change == pct_change(vals, i)
          IN  [timestamp |-> ts,
               demand_mw |-> vals[i],
               timestamp_dt |-> ts,
               hour |-> HourOf(ts),
               day_of_week |-> DayOfWeek(ts),
               month |-> MonthOf(ts),
               day |-> DayOfMonth(ts),
               is_weekend |-> IF DayOfWeek(ts) >= 5 THEN 1 ELSE 0,
               demand_rolling_mean_6h |-> rolling_mean(vals, i, 6),
               demand_rolling_std_6h |-> fillna0(rolling_std(vals, i, 6), <<0, 1>>),
               demand_rolling_min_6h |-> rolling_min(vals, i, 6),
               demand_rolling_max_6h |-> rolling_max(vals, i, 6),
               demand_lag_1h |-> lag(vals, i, 1),
               demand_lag_2h |-> lag(vals, i, 2),
               demand_lag_24h |-> lag(vals, i, 24),
               demand_rate_of_change |-> fillna0(diff(vals, i), 0),
               demand_rate_of_change_pct |->
                   IF change.kind = "num"
                   THEN Num(<<change.v[1] * 100, change.v[2]>>)
                   ELSE fillna0(change, <<0, 1>>)]]

\* the columns of the table of prepare_features
MockColumns ==
    {"timestamp", "demand_mw", "timestamp_dt", "hour", "day_of_week", "month",
     "day", "is_weekend", "demand_rolling_mean_6h", "demand_rolling_std_6h",
     "demand_rolling_min_6h", "demand_rolling_max_6h", "demand_lag_1h",
     "demand_lag_2h", "demand_lag_24h", "demand_rate_of_change",
     "demand_rate_of_change_pct"}

\* for col in feature_columns: if col not in df.columns: df[col] = 0
MissingFeatures(feature_columns) ==
    {feature_columns[k] : k \in 1..Len(feature_columns)} \ MockColumns

prepare_features(data_points, feature_columns) ==
    LET df == MockFeatures(data_points)
    IN  [i \in 1..Len(df) |->
            [c \in MissingFeatures(feature_columns) |-> 0] @@ df[i]]

\* severity 'normal', 'medium' for an anomaly, 'high' for one scored below
\* -0.5, 'critical' below -0.8
MockSeverity(is_anomaly, score) ==
    IF ~is_anomaly THEN "normal"
    ELSE IF score < -80 THEN "critical"
    ELSE IF score < -50 THEN "high"
    ELSE "medium"

\* main(): load_november_model, run_november_model on the mock points,
\* save_mock_predictions
run_november_model(data_points, scores) ==
    LET call == "run_november_model"
        files == trained_models["november"]
        feature_columns == files.info.feature_columns
        df == prepare_features(data_points, feature_columns)
        scored == [i \in 1..Len(df) |->
                     [timestamp |-> df[i].timestamp,
                      demand_mw |-> df[i].demand_mw,
                      is_anomaly |-> IsOutlier(scores[i], files.model.offset),
                      anomaly_score |-> scores[i],
                      confidence |-> Confidence(scores[i]),
                      severity |-> MockSeverity(IsOutlier(scores[i], files.model.offset),
                                                scores[i])]]
    IN  IF ~files.model.exists \/ ~files.scaler.exists \/ ~files.info.exists
        THEN Failed(call, "november", "FileNotFoundError", {}, <<>>, 0)
        ELSE [call |-> call,
              month |-> "november",
              outcome |-> "ok",
              batch |-> scored,
              scored |-> scored,
              scored_with |-> [model |-> <<"november", files.model.run>>,
                               scaler |-> <<"november", files.scaler.run>>,
                               info |-> <<"november", files.info.run>>],
              logged |-> IF MissingFeatures(feature_columns) # {}
                         THEN {"missing_feature_default"} ELSE {},
              combined |-> <<>>,
              n_historical |-> 0,
              saved |-> predictions_data("november", scored),
              feature_cols |-> feature_columns,
              defaulted |-> MissingFeatures(feature_columns)]

RunNovemberModel ==
    /\ request.values # <<>>
    /\ result' = run_november_model(MockPoints(request.values), request.scores)
    /\ predictions_dir' = IF result'.saved.written
                          THEN [predictions_dir EXCEPT !["november_mock"] = result'.saved]
                          ELSE predictions_dir
    /\ UNCHANGED <<collector, pipeline, response, learner, now, demand_db, trained_models, trainer, baseline, detector,
                   request, series, features>>

(***************************************************************************)
(* api_server.py, GET /api/ml-predictions: month is the query parameter,   *)
(* "" when it is not given.                                                *)
(***************************************************************************)
NoResponse ==
    [endpoint |-> "", month |-> "", status |-> 0, success |-> FALSE,
     served |-> "", data |-> NoSave]

\* predictions_file.exists()
FileExists(name) == name \in PredictionFiles /\ predictions_dir[name].written

\* the endpoint serving latest_predictions.json ahead of the month's file
get_ml_predictions_latest_first(month) ==
    LET m == IF month = "" THEN current_month ELSE month
        name == IF FileExists("latest") THEN "latest" ELSE m
    IN  IF ~FileExists(name)
        THEN [endpoint |-> "ml-predictions", month |-> month, status |-> 200,
              success |-> FALSE, served |-> "", data |-> NoSave]
        ELSE [endpoint |-> "ml-predictions", month |-> month, status |-> 200,
              success |-> TRUE, served |-> name, data |-> predictions_dir[name]]

get_ml_predictions(month) ==
    LET m == IF month = "" THEN current_month ELSE month
        name == IF FileExists(m) THEN m ELSE "latest"
    IN  IF ~FileExists(name)
        THEN [endpoint |-> "ml-predictions", month |-> month, status |-> 200,
              success |-> FALSE, served |-> "", data |-> NoSave]
        ELSE [endpoint |-> "ml-predictions", month |-> month, status |-> 200,
              success |-> TRUE, served |-> name, data |-> predictions_dir[name]]

\* the months a client asks for: none, two month names, a name of no month
ApiMonths == {"", "january", "february", "smarch"}

GetMlPredictions ==
    /\ \E month \in ApiMonths : response' = get_ml_predictions(month)
    /\ UNCHANGED <<collector, pipeline, now, demand_db, trained_models, trainer, baseline, detector, request,
                   result, series, features, learner, predictions_dir>>

(***************************************************************************)
(* Learning the baseline (models/baseline_patterns.py).  A BaselinePatterns*)
(* object holds self.patterns, {} after construction, and reads and writes *)
(* baseline_data/patterns.json.  A statistic is a cell: a number carried   *)
(* as the pair <<numerator, denominator>>, or NaN.  The std of a group is  *)
(* carried as its square, the variance, the square root not being          *)
(* rational; the two-decimal rounding of an hourly std is not followed.    *)
(***************************************************************************)
MaxProfileRows == 3

\* df['timestamp'].dt.hour, .dt.dayofweek and day_of_week.isin([5, 6])
extract_time_features(df) ==
    [i \in 1..Len(df) |->
        [timestamp |-> df[i].timestamp, demand_mw |-> df[i].demand_mw,
         hour |-> HourOf(df[i].timestamp),
         day_of_week |-> DayOfWeek(df[i].timestamp),
         is_weekend |-> IF DayOfWeek(df[i].timestamp) \in {5, 6} THEN 1 ELSE 0]]

\* the demand_mw of the rows of a group, in the order of the frame
GroupValues(df, column, key) ==
    LET members == SelectSeq(df, LAMBDA r : r[column] = key)
    IN  [i \in 1..Len(members) |-> members[i].demand_mw]

\* Series.mean(): NaN over no value
series_mean(vals) ==
    IF vals = <<>> THEN NaN(<<0, 1>>) ELSE Num(<<SeqSum(vals), Len(vals)>>)

\* Series.std(), ddof=1, as the variance: NaN over fewer than two values
series_std(vals) ==
    LET n == Len(vals)
        s == SeqSum(vals)
    IN  IF n < 2 THEN NaN(<<0, 1>>)
        ELSE Num(<<n * SumSq(vals) - s * s, n * (n - 1)>>)

\* .round(2) of a mean: to hundredths, half to even
round2(cell) ==
    IF cell.kind # "num" THEN cell
    ELSE Num(<<round(cell.v[1] * 100, cell.v[2]), 100>>)

\* patterns['overall']: float(mean()), float(std()), not rounded
OverallStats(df) ==
    LET vals == [i \in 1..Len(df) |-> df[i].demand_mw]
    IN  [mean |-> series_mean(vals), std |-> series_std(vals)]

\* one row of groupby(...)['demand_mw'].agg([...]).round(2)
GroupStats(df, column, key) ==
    LET vals == GroupValues(df, column, key)
    IN  [mean |-> round2(series_mean(vals)), std |-> series_std(vals)]

\* the keys of a groupby: the values of the column that occur
GroupKeys(df, column) == {df[i][column] : i \in 1..Len(df)}

\* int(hour), the key analyze_demand_patterns files an hour's statistics
\* under: an int, which no str equals
HourInts ==
    <<"int 0", "int 1", "int 2", "int 3", "int 4", "int 5", "int 6", "int 7",
      "int 8", "int 9", "int 10", "int 11", "int 12", "int 13", "int 14",
      "int 15", "int 16", "int 17", "int 18", "int 19", "int 20", "int 21",
      "int 22", "int 23">>

int(hour) == HourInts[hour + 1]

\* the hour a key of the hourly dict stands for, int or str
HourOfKey(key) ==
    CHOOSE h \in 0..23 : key = int(h) \/ key = str(h)

NoStats == [mean |-> NaN(<<0, 1>>), std |-> NaN(<<0, 1>>)]

\* self.patterns = {}
EmptyDict ==
    [loaded |-> FALSE, hourly |-> [k \in {} |-> NoStats], overall |-> NoStats]

AnalysisFailed(error) == [outcome |-> error, patterns |-> EmptyDict]

\* the analysis with no weekday/weekend table: it returns on every frame
analyze_demand_patterns_without_weekend(demand_df) ==
    LET df == extract_time_features(demand_df)
        hours == GroupKeys(df, "hour")
    IN  [outcome |-> "ok",
         patterns |-> Patterns([k \in {int(h) : h \in hours} |->
                                    GroupStats(df, "hour", HourOfKey(k))],
                               OverallStats(df))]

\* analyze_demand_patterns: the overall statistics, the hourly ones keyed
\* by int(hour), and the weekday/weekend table, whose .loc[0] and .loc[1]
\* raise KeyError when the frame has no weekday row or no weekend row
analyze_demand_patterns(demand_df) ==
    LET df == extract_time_features(demand_df)
        hours == GroupKeys(df, "hour")
    IN  IF ~ ({0, 1} \subseteq GroupKeys(df, "is_weekend"))
        THEN AnalysisFailed("KeyError")
        ELSE [outcome |-> "ok",
              patterns |-> Patterns([k \in {int(h) : h \in hours} |->
                                         GroupStats(df, "hour", HourOfKey(k))],
                                    OverallStats(df))]

\* patterns.json: absent, or the dict json.dump wrote
NoPatternsFile == [exists |-> FALSE, content |-> EmptyDict]

\* json.dump turns every int key of a dict into its decimal string;
\* json.load returns the keys of the file, strings
json_dump(patterns) ==
    [exists |-> TRUE,
     content |-> Patterns([k \in {str(HourOfKey(key)) : key \in DOMAIN patterns.hourly} |->
                               patterns.hourly[CHOOSE key \in DOMAIN patterns.hourly :
                                                   str(HourOfKey(key)) = k]],
                          patterns.overall)]

json_load(file) == file.content

(***************************************************************************)
(* is_anomalous(value, hour, metric='demand', threshold_std), lines        *)
(* 377-420.  The deviation <<a, b, c, d>> stands for (a / b) / sqrt(c / d):*)
(* a difference from the mean over a std carried as its variance.          *)
(***************************************************************************)
ZeroDeviation == Num(<<0, 1, 1, 1>>)

\* (value - mean) / std
Quotient(value, mean, std) ==
    IF mean.kind # "num" \/ std.kind # "num" THEN NaN(<<0, 1, 1, 1>>)
    ELSE Num(<<value * mean.v[2] - mean.v[1], mean.v[2], std.v[1], std.v[2]>>)

\* std > 0, False of NaN
Positive(std) == std.kind = "num" /\ std.v[1] > 0

\* abs(deviation) > t for t = <<a, b>>, a / b >= 0; False of NaN
AbsExceeds(deviation, t) ==
    /\ deviation.kind = "num"
    /\ deviation.v[1] * deviation.v[1] * deviation.v[4] * t[2] * t[2]
         > t[1] * t[1] * deviation.v[2] * deviation.v[2] * deviation.v[3]

\* the severity ladder with a deviation on a bound counted into the rung
\* above it
severity_inclusive(deviation) ==
    LET reaches(t) ==
            /\ deviation.kind = "num"
            /\ deviation.v[1] * deviation.v[1] * deviation.v[4] * t[2] * t[2]
                 >= t[1] * t[1] * deviation.v[2] * deviation.v[2] * deviation.v[3]
    IN  IF reaches(<<3, 1>>) THEN "critical"
        ELSE IF reaches(<<5, 2>>) THEN "high"
        ELSE IF reaches(<<2, 1>>) THEN "medium"
        ELSE "normal"

\* the if/elif ladder of lines 400-407
severity_of(deviation) ==
    IF AbsExceeds(deviation, <<3, 1>>) THEN "critical"
    ELSE IF AbsExceeds(deviation, <<5, 2>>) THEN "high"
    ELSE IF AbsExceeds(deviation, <<2, 1>>) THEN "medium"
    ELSE "normal"

is_anomalous(expected, value, threshold_std) ==
    LET mean == expected.mean
        std == expected.std
        deviation == IF Positive(std) THEN Quotient(value, mean, std)
                     ELSE ZeroDeviation
    IN  [is_anomalous |-> AbsExceeds(deviation, threshold_std),
         deviation |-> deviation,
         severity |-> severity_of(deviation),
         value |-> value, threshold_std |-> threshold_std,
         expected |-> expected]

NoVerdict ==
    [is_anomalous |-> FALSE, deviation |-> ZeroDeviation, severity |-> "none",
     value |-> 0, threshold_std |-> <<0, 1>>, expected |-> NoStats]

\* BaselinePatterns(): self.patterns = {}; nothing called yet
NewLearner(file) ==
    [patterns |-> EmptyDict, file |-> file, call |-> "none", outcome |-> "none",
     hour |-> 0, expected |-> NoStats, verdict |-> NoVerdict]

(***************************************************************************)
(* The calls on a BaselinePatterns object.  Of a call the object keeps     *)
(* its name, how it ended, the hour it was about and what it returned:     *)
(* the statistics of a lookup (expected), the dict of is_anomalous         *)
(* (verdict).                                                              *)
(***************************************************************************)
Called(call, outcome, hour) ==
    [learner EXCEPT !.call = call, !.outcome = outcome, !.hour = hour,
                    !.expected = NoStats, !.verdict = NoVerdict]

\* learn_patterns(): load the demand table ORDER BY timestamp, analyse it,
\* set self.patterns, save_patterns(), return self.patterns; an exception
\* of the analysis leaves the object and the file as they were
LearnPatterns ==
    LET demand_df == SortByTimestamp(demand_db)
        analysed == analyze_demand_patterns(demand_df)
    IN  /\ learner' =
              IF analysed.outcome = "ok"
              THEN [Called("learn_patterns", "ok", 0)
                        EXCEPT !.patterns = analysed.patterns,
                               !.file = json_dump(analysed.patterns)]
              ELSE Called("learn_patterns", analysed.outcome, 0)
        /\ UNCHANGED <<collector, pipeline, predictions_dir, response, now, demand_db, trained_models, trainer, baseline, detector,
                       request, result, series, features>>

\* load_patterns(): FileNotFoundError when patterns.json is missing
LoadPatterns ==
    /\ learner' =
          IF learner.file.exists
          THEN [Called("load_patterns", "ok", 0)
                    EXCEPT !.patterns = json_load(learner.file)]
          ELSE Called("load_patterns", "FileNotFoundError", 0)
    /\ UNCHANGED <<collector, pipeline, predictions_dir, response, now, demand_db, trained_models, trainer, baseline, detector,
                   request, result, series, features>>

\* get_expected_demand(hour) on the object: load_patterns() first when
\* self.patterns is empty, then the lookup under str(hour)
Lookup(hour) ==
    IF ~ learner.patterns.loaded /\ ~ learner.file.exists
    THEN [outcome |-> "FileNotFoundError", patterns |-> learner.patterns,
          expected |-> NoStats]
    ELSE LET patterns == IF learner.patterns.loaded THEN learner.patterns
                         ELSE json_load(learner.file)
         IN  [outcome |-> "ok", patterns |-> patterns,
              expected |-> get_expected_demand(patterns, hour)]

\* the hours and values the object is asked about, the thresholds it is
\* given (2.5 the default)
LookupHours == {1, 2, 3}

Thresholds == {<<5, 2>>, <<2, 1>>}

CheckedValues == {10, 14, 15, 16, 17}

GetExpectedDemand ==
    \E hour \in LookupHours :
        LET found == Lookup(hour)
        IN  /\ learner' = [Called("get_expected_demand", found.outcome, hour)
                               EXCEPT !.patterns = found.patterns,
                                      !.expected = found.expected]
            /\ UNCHANGED <<collector, pipeline, predictions_dir, response, now, demand_db, trained_models, trainer, baseline,
                           detector, request, result, series, features>>

IsAnomalous ==
    \E hour \in LookupHours, value \in CheckedValues, threshold_std \in Thresholds :
        LET found == Lookup(hour)
        IN  /\ learner' =
                  [Called("is_anomalous", found.outcome, hour)
                       EXCEPT !.patterns = found.patterns,
                              !.verdict =
                                  IF found.outcome = "ok"
                                  THEN is_anomalous(found.expected, value, threshold_std)
                                  ELSE NoVerdict]
            /\ UNCHANGED <<collector, pipeline, predictions_dir, response, now, demand_db, trained_models, trainer, baseline,
                           detector, request, result, series, features>>

(***************************************************************************)
(* The state after construction: no month model trained yet, the generic   *)
(* detector trained and loaded, the baseline patterns loaded from          *)
(* patterns.json or, the file missing, None.                               *)
(***************************************************************************)
LoadedBaseline ==
    Patterns(("1" :> [mean |-> 2000]) @@ ("2" :> [mean |-> 3000]), [mean |-> 0])

Baselines == {NoBaseline, LoadedBaseline}

NoMonthModels == [a \in ArtifactNames |-> IF a = "generic" THEN GenericArtifact ELSE NoArtifact]

LoadedDetector ==
    [demand_model |-> GenericArtifact.model, demand_scaler |-> GenericArtifact.scaler]

\* the forecast values and scores the whole pipeline is run on
PipelineValues == {2900}

PipelineScores == {-90}

Init ==
    /\ now = 0
    /\ demand_db = {}
    /\ trained_models = NoMonthModels
    /\ trainer = TrainerIdle
    /\ baseline \in Baselines
    /\ detector = LoadedDetector
    /\ request \in {r \in Requests(PipelineValues, PipelineScores, MaxPipeline) :
                        Len(r.values) = Len(r.scores)}
    /\ result = NoResult
    /\ series = <<>>
    /\ features = NotEngineered
    /\ learner = NewLearner(NoPatternsFile)
    /\ predictions_dir = NoPredictions
    /\ response = NoResponse
    /\ pipeline = PredictorReady
    /\ collector = CollectorIdle

Next ==
    \/ Tick
    \/ SaveDemandToDb
    \/ TrainAllStart
    \/ TrainMonthInsufficient
    \/ TrainMonthSaveModel
    \/ TrainMonthSaveScaler
    \/ TrainMonthSaveInfo
    \/ TrainMonthError
    \/ PredictFutureAnomalies
    \/ SavePredictions
    \/ PredictWithModel

Spec == Init /\ [][Next]_vars

(***************************************************************************)
(* Feature engineering on its own.                                         *)
(***************************************************************************)
InitFE ==
    /\ now = 0
    /\ demand_db = {}
    /\ trained_models = NoMonthModels
    /\ trainer = TrainerIdle
    /\ baseline = NoBaseline
    /\ detector = LoadedDetector
    /\ request = [values |-> <<>>, scores |-> <<>>]
    /\ result = NoResult
    /\ series \in SeriesInputs
    /\ features = NotEngineered
    /\ learner = NewLearner(NoPatternsFile)
    /\ predictions_dir = NoPredictions
    /\ response = NoResponse
    /\ pipeline = PredictorReady
    /\ collector = CollectorIdle

NextFE == Engineer

SpecFE == InitFE /\ [][NextFE]_vars

(***************************************************************************)
(* Scoring on its own: the prediction calls on a store whose newest rows   *)
(* lead up to now, with no month model trained or with the models of       *)
(* january and february trained.                                           *)
(***************************************************************************)
ScoringValues == {2800, 3850}

ScoringScores == {-90, -80, -65, -60}

RecentRows == {[timestamp |-> 0 - k, demand_mw |-> 2000] : k \in 0..MaxStore}

TrainedArtifact(run, offset) ==
    [model |-> ModelFile(run, offset), scaler |-> ScalerFile(run),
     info |-> InfoFile(run, MonthFeatureColumns)]

TwoMonthModels ==
    [NoMonthModels EXCEPT !["january"] = TrainedArtifact(1, -70),
                          !["february"] = TrainedArtifact(2, -50)]

TrainerAfterTwo ==
    [pc |-> "loop", month_num |-> 3, calls |-> 2, records |-> MinTrainingRecords,
     offset |-> 0, results |-> <<"Success", "Success">>]

InitScoring ==
    /\ now = 0
    /\ demand_db = RecentRows
    /\ \/ trained_models = NoMonthModels /\ trainer = TrainerIdle
       \/ trained_models = TwoMonthModels /\ trainer = TrainerAfterTwo
    /\ baseline \in Baselines
    /\ detector = LoadedDetector
    /\ request \in {r \in Requests(ScoringValues, ScoringScores, MaxForecast) :
                        Len(r.values) = Len(r.scores)}
    /\ result = NoResult
    /\ series = <<>>
    /\ features = NotEngineered
    /\ learner = NewLearner(NoPatternsFile)
    /\ predictions_dir = NoPredictions
    /\ response = NoResponse
    /\ pipeline = PredictorReady
    /\ collector = CollectorIdle

NextScoring ==
    \/ PredictFutureAnomalies
    \/ PredictWithModel

SpecScoring == InitScoring /\ [][NextScoring]_vars

(***************************************************************************)
(* The features of the forecast rows on their own: the store holds one row *)
(* per hour up to now, older rows of one level and newer rows of another,  *)
(* and the first half of predict_future_anomalies (lines 106-137) runs on  *)
(* it.                                                                     *)
(***************************************************************************)
StoreSizes == {0, 1, 2, DemandWindow, TailLimit, TailLimit + 1, TailLimit + 2}

\* demand levels, small: the variance of a full window multiplies their
\* squares by the square of the window
StoreLevels == {0, 20}

\* n hourly rows ending at now, the oldest k at level a, the others at b
HourlyStore(n, k, a, b) ==
    {[timestamp |-> i - n, demand_mw |-> IF i <= k THEN a ELSE b] : i \in 1..n}

BoundaryStores ==
    {HourlyStore(n, k, a, b) : n \in StoreSizes, k \in 0..2, a \in StoreLevels,
                                b \in StoreLevels}

BoundaryValues == {0, 20, 25}

EngineerForecast ==
    /\ ~features.done
    /\ features' = [done |-> TRUE,
                    table |-> ForecastFeatures(HistoricalTail(demand_db),
                                               Forecast(request.values))]
    /\ UNCHANGED <<collector, pipeline, predictions_dir, response, learner, now, demand_db, trained_models, trainer, baseline, detector, request,
                   result, series>>

InitBoundary ==
    /\ now = 0
    /\ demand_db \in BoundaryStores
    /\ trained_models = NoMonthModels
    /\ trainer = TrainerIdle
    /\ baseline = NoBaseline
    /\ detector = LoadedDetector
    /\ request \in {r \in Requests(BoundaryValues, {0}, MaxForecast) :
                        Len(r.values) = Len(r.scores) /\ r.values # <<>>}
    /\ result = NoResult
    /\ series = <<>>
    /\ features = NotEngineered
    /\ learner = NewLearner(NoPatternsFile)
    /\ predictions_dir = NoPredictions
    /\ response = NoResponse
    /\ pipeline = PredictorReady
    /\ collector = CollectorIdle

NextBoundary == EngineerForecast

SpecBoundary == InitBoundary /\ [][NextBoundary]_vars

(***************************************************************************)
(* Training on its own: train_all from its start, or at the month it has   *)
(* reached on a store with too few records for the months before.          *)
(***************************************************************************)
TrainerAtMonth(k) ==
    [TrainerIdle EXCEPT !.pc = "loop", !.month_num = k,
                        !.results = [i \in 1..(k - 1) |-> "Failed"]]

TrainMonth ==
    \/ TrainMonthInsufficient
    \/ TrainMonthSaveModel
    \/ TrainMonthSaveScaler
    \/ TrainMonthSaveInfo
    \/ TrainMonthError

InitTraining ==
    /\ now = 0
    /\ demand_db = {}
    /\ trained_models = NoMonthModels
    /\ trainer \in {TrainerIdle} \cup {TrainerAtMonth(k) : k \in 1..12}
    /\ baseline = NoBaseline
    /\ detector = LoadedDetector
    /\ request = [values |-> <<>>, scores |-> <<>>]
    /\ result = NoResult
    /\ series = <<>>
    /\ features = NotEngineered
    /\ learner = NewLearner(NoPatternsFile)
    /\ predictions_dir = NoPredictions
    /\ response = NoResponse
    /\ pipeline = PredictorReady
    /\ collector = CollectorIdle

NextTraining ==
    \/ TrainAllStart
    \/ TrainMonth

\* train_all is a sequential loop: the call of train_month_model it has made
\* returns or raises, and a file it has opened is written
SpecTraining == InitTraining /\ [][NextTraining]_vars /\ WF_vars(TrainMonth)

(***************************************************************************)
(* The batches written: the prediction calls and save_predictions on       *)
(* forecasts of up to MaxBatch points.                                     *)
(***************************************************************************)
EmitValues == {2800}

EmitScores == {-90, -40}

InitEmit ==
    /\ now = 0
    /\ demand_db = RecentRows
    /\ \/ trained_models = NoMonthModels /\ trainer = TrainerIdle
       \/ trained_models = TwoMonthModels /\ trainer = TrainerAfterTwo
    /\ baseline \in Baselines
    /\ detector = LoadedDetector
    /\ request \in {r \in Requests(EmitValues, EmitScores, MaxBatch) :
                        Len(r.values) = Len(r.scores)}
    /\ result = NoResult
    /\ series = <<>>
    /\ features = NotEngineered
    /\ learner = NewLearner(NoPatternsFile)
    /\ predictions_dir = NoPredictions
    /\ response = NoResponse
    /\ pipeline = PredictorReady
    /\ collector = CollectorIdle

NextEmit ==
    \/ PredictFutureAnomalies
    \/ SavePredictions
    \/ PredictWithModel

SpecEmit == InitEmit /\ [][NextEmit]_vars

(***************************************************************************)
(* The baseline learner on its own: a demand table of up to                *)
(* MaxProfileRows rows at weekday and weekend hours, patterns.json absent  *)
(* or left by an earlier run.                                              *)
(***************************************************************************)
\* Monday 01:00 and 02:00, Tuesday 01:00, Saturday 01:00 and 02:00
ProfileTimes == {1, 2, 25, 121, 122}

ProfileLevels == {10, 12}

ProfileStores ==
    {rows \in SUBSET {[timestamp |-> t, demand_mw |-> v] :
                          t \in ProfileTimes, v \in ProfileLevels} :
        /\ Cardinality(rows) <= MaxProfileRows
        /\ \A r, q \in rows : r.timestamp = q.timestamp => r = q}

\* a patterns.json of an earlier run: hour 1 with mean 10 and std 2, hour 2
\* with equal observations (std 0), hour 3 never observed
ExistingFile ==
    [exists |-> TRUE,
     content |-> Patterns(("1" :> [mean |-> Num(<<1000, 100>>), std |-> Num(<<4, 1>>)]) @@
                          ("2" :> [mean |-> Num(<<1200, 100>>), std |-> Num(<<0, 1>>)]),
                          [mean |-> Num(<<32, 3>>), std |-> Num(<<8, 6>>)])]

InitBaseline ==
    /\ now = 0
    /\ demand_db \in ProfileStores
    /\ trained_models = NoMonthModels
    /\ trainer = TrainerIdle
    /\ baseline = NoBaseline
    /\ detector = LoadedDetector
    /\ request = [values |-> <<>>, scores |-> <<>>]
    /\ result = NoResult
    /\ series = <<>>
    /\ features = NotEngineered
    /\ learner \in {NewLearner(NoPatternsFile), NewLearner(ExistingFile)}
    /\ predictions_dir = NoPredictions
    /\ response = NoResponse
    /\ pipeline = PredictorReady
    /\ collector = CollectorIdle

NextBaseline ==
    \/ LearnPatterns
    \/ LoadPatterns
    \/ GetExpectedDemand
    \/ IsAnomalous

SpecBaseline == InitBaseline /\ [][NextBaseline]_vars

(***************************************************************************)
(* The three scoring paths on month models whose persisted feature_columns *)
(* are the ones the trainer writes today, or those of an older trainer     *)
(* that still listed a lag column.                                         *)
(***************************************************************************)
SchemaValues == {2800}

SchemaScores == {-90, -40}

StaleFeatureColumns == Append(MonthFeatureColumns, "demand_mw_lag_1")

CurrentModels ==
    [NoMonthModels EXCEPT !["january"] = TrainedArtifact(1, -70),
                          !["november"] = TrainedArtifact(2, -50)]

StaleModels ==
    [CurrentModels EXCEPT !["january"].info = InfoFile(1, StaleFeatureColumns),
                          !["november"].info = InfoFile(2, StaleFeatureColumns)]

InitSchema ==
    /\ now = 0
    /\ demand_db = RecentRows
    /\ trained_models \in {NoMonthModels, CurrentModels, StaleModels}
    /\ trainer = TrainerIdle
    /\ baseline \in Baselines
    /\ detector = LoadedDetector
    /\ request \in {r \in Requests(SchemaValues, SchemaScores, MaxBatch) :
                        Len(r.values) = Len(r.scores)}
    /\ result = NoResult
    /\ series = <<>>
    /\ features = NotEngineered
    /\ learner = NewLearner(NoPatternsFile)
    /\ predictions_dir = NoPredictions
    /\ response = NoResponse
    /\ pipeline = PredictorReady
    /\ collector = CollectorIdle

NextSchema ==
    \/ PredictFutureAnomalies
    \/ PredictWithModel
    \/ RunNovemberModel

SpecSchema == InitSchema /\ [][NextSchema]_vars

(***************************************************************************)
(* Month rollover: a predictor constructed in january keeps serving        *)
(* prediction calls while the calendar moves on to february and march;     *)
(* the month models on disk are those of january and february, of february *)
(* alone, a february model whose info file is missing, or none.            *)
(***************************************************************************)
RolloverValues == {2800}

RolloverScores == {-90, -60}

RolloverModels ==
    {NoMonthModels,
     TwoMonthModels,
     [NoMonthModels EXCEPT !["february"] = TrainedArtifact(2, -50)],
     [TwoMonthModels EXCEPT !["february"].info = NoFile]}

InitRollover ==
    /\ now = 0
    /\ demand_db = RecentRows
    /\ trained_models \in RolloverModels
    /\ trainer = TrainerIdle
    /\ baseline \in Baselines
    /\ detector = LoadedDetector
    /\ request \in {r \in Requests(RolloverValues, RolloverScores, MaxForecast) :
                        Len(r.values) = Len(r.scores)}
    /\ result = NoResult
    /\ series = <<>>
    /\ features = NotEngineered
    /\ learner = NewLearner(NoPatternsFile)
    /\ predictions_dir = NoPredictions
    /\ response = NoResponse
    /\ pipeline = PredictorReady
    /\ collector = CollectorIdle

NextRollover ==
    \/ Tick
    \/ MonthBegins
    \/ PredictFutureAnomalies

SpecRollover == InitRollover /\ [][NextRollover]_vars

(***************************************************************************)
(* The predictions endpoint next to the writers of the files it serves.    *)
(***************************************************************************)
InitApi == InitEmit

NextApi ==
    \/ PredictFutureAnomalies
    \/ SavePredictions
    \/ PredictWithModel
    \/ GetMlPredictions

SpecApi == InitApi /\ [][NextApi]_vars

(***************************************************************************)
(* Properties.                                                             *)
(***************************************************************************)
Rows(table) == 1..Len(table)

SeverityRank(severity) ==
    CASE severity = "normal" -> 0
      [] severity = "medium" -> 1
      [] severity = "high" -> 2
      [] severity = "critical" -> 3

Returned == result.outcome = "ok"

Filtered == Returned /\ "baseline_filter" \in result.logged

\* the flag of row i was removed by the baseline filter
Suppressed(i) == result.scored[i].is_anomaly /\ ~result.batch[i].is_anomaly

ExpectedMean(i) == get_expected_demand(baseline, HourOf(result.batch[i].timestamp)).mean

Deviation(i) == Abs(result.batch[i].demand_mw - ExpectedMean(i))

\* C1: the baseline suppression pass is one-directional: a point that was
\* not flagged before the pass is not flagged after it, whatever the
\* baseline holds; the pass only turns is_anomaly from true to false.
C1_SuppressionOneDirectional ==
    Returned =>
        /\ Len(result.batch) = Len(result.scored)
        /\ \A i \in Rows(result.batch) :
              ~result.scored[i].is_anomaly => ~result.batch[i].is_anomaly

\* a filtered batch with a point that was never flagged and stays so, and
\* a point whose flag the pass removed
C1_Witness ==
    /\ Filtered
    /\ \E i \in Rows(result.batch) :
          /\ ~result.scored[i].is_anomaly
          /\ ExpectedMean(i) > 0
          /\ ~WithinNormalRange(result.batch[i].demand_mw, ExpectedMean(i))
    /\ \E j \in Rows(result.batch) : Suppressed(j)

\* C2: a flagged point whose hour has a baseline mean above 0 keeps its flag
\* if and only if its deviation is more than 30% of the mean and more than
\* 800 MW; a deviation of exactly 30% or exactly 800 MW is suppressed.
C2_KeptIffBothExceeded ==
    Filtered =>
        \A i \in Rows(result.batch) :
            (result.scored[i].is_anomaly /\ ExpectedMean(i) > 0) =>
                (result.batch[i].is_anomaly <=>
                    /\ Deviation(i) * 100 > PctThreshold * ExpectedMean(i)
                    /\ Deviation(i) > MwThreshold)

PointsOf(r) == {r.batch[i] : i \in Rows(r.batch)} \cup {r.scored[i] : i \in Rows(r.scored)}

Monotonic(p, q) ==
    p.confidence < q.confidence => SeverityRank(p.severity) <= SeverityRank(q.severity)

\* C3 as stated: any two points the predictor produced, those of two
\* successive calls included, are ordered in severity as in confidence.
C3_AnyTwoPoints ==
    [][\A p \in PointsOf(result) : \A q \in PointsOf(result') :
          Monotonic(p, q) /\ Monotonic(q, p)]_vars

\* C3, amended: severity is monotonic in confidence among the points of one
\* prediction call (one batch, scored by one model), before and after the
\* suppression pass.
C3_MonotonicWithinCall ==
    \A p \in PointsOf(result) : \A q \in PointsOf(result) : Monotonic(p, q)

\* a filtered batch with a suppressed point and two flagged points of
\* different confidence and severity
C3_Witness ==
    /\ Filtered
    /\ \E i \in Rows(result.batch) : Suppressed(i)
    /\ \E p \in PointsOf(result) : \E q \in PointsOf(result) :
          /\ p.is_anomaly /\ q.is_anomaly
          /\ p.confidence < q.confidence
          /\ SeverityRank(p.severity) < SeverityRank(q.severity)

ThresholdSeverity(p) ==
    IF p.confidence > 80 THEN "critical"
    ELSE IF p.confidence > 60 THEN "high"
    ELSE IF p.is_anomaly THEN "medium"
    ELSE "normal"

\* C4 as stated: severity is the confidence thresholded: above 80 critical,
\* above 60 high, else medium for an anomaly and normal otherwise.
C4_ThresholdsOnly ==
    \A p \in PointsOf(result) : p.severity = ThresholdSeverity(p)

\* C4, amended: a point that is not an anomaly has severity normal whatever
\* its confidence; an anomaly has severity critical above confidence 80,
\* high above 60 and up to 80, medium up to 60.
C4_SeverityOfAnomalies ==
    \A p \in PointsOf(result) :
        /\ ~p.is_anomaly => p.severity = "normal"
        /\ (p.is_anomaly /\ p.confidence > 80) => p.severity = "critical"
        /\ (p.is_anomaly /\ p.confidence > 60 /\ p.confidence <= 80) => p.severity = "high"
        /\ (p.is_anomaly /\ p.confidence <= 60) => p.severity = "medium"

\* a batch with an anomaly at the boundary 80, of severity high, and a
\* point of confidence above 60 that is no anomaly
C4_Witness ==
    /\ Returned
    /\ \E p \in PointsOf(result) :
          p.is_anomaly /\ p.confidence = 80 /\ p.severity = "high"
    /\ \E p \in PointsOf(result) : ~p.is_anomaly /\ p.confidence > 60

\* C5 as stated: every point of a returned batch, those the baseline filter
\* suppressed included, has confidence clip(|anomaly_score| * 100, 0, 100).
C5_ConfidenceFromScore ==
    (Returned /\ result.call = "predict_future_anomalies") =>
        \A i \in Rows(result.batch) :
            result.batch[i].confidence = clip(Abs(result.batch[i].anomaly_score), 0, 100)

\* C5, amended: every point of a returned batch has a confidence within
\* [0, 100]: clip(|anomaly_score| * 100, 0, 100) for a point the baseline
\* filter did not suppress, and 0 for a point it suppressed.
C5_ConfidenceUnlessSuppressed ==
    (Returned /\ result.call = "predict_future_anomalies") =>
        \A i \in Rows(result.batch) :
            /\ result.batch[i].confidence \in 0..100
            /\ result.batch[i].confidence =
                  IF Suppressed(i) THEN 0
                  ELSE clip(Abs(result.batch[i].anomaly_score), 0, 100)

\* a batch of predict_future_anomalies with a suppressed point and a point
\* that kept a confidence above 0
C5_Witness ==
    /\ Filtered
    /\ \E i \in Rows(result.batch) : Suppressed(i) /\ result.batch[i].anomaly_score # 0
    /\ \E i \in Rows(result.batch) : ~Suppressed(i) /\ result.batch[i].confidence > 0

\* the call scored with the generic model, the generic scaler and the
\* generic feature_columns, and logged that it fell back
GenericFallback(r) ==
    /\ r.outcome = "ok"
    /\ r.scored_with.model[1] = "generic"
    /\ r.scored_with.scaler[1] = "generic"
    /\ r.scored_with.info[1] = "generic"
    /\ "fallback_warning" \in r.logged

\* C6: a prediction for a month whose model, scaler or info file is absent
\* either ends model-not-found or scores with the generic model, scaler and
\* feature_columns and logs the fallback; it never raises another error and
\* never scores with a part of the month's artifact.  (A call the scaler
\* ended with ValueError on a NaN feature is left to C10.)
C6_MissingModelNotFoundOrFallback ==
    [][(/\ result' # result
        /\ result'.month \in MonthNames
        /\ ~HasMonthModel(result'.month)
        /\ result'.outcome # "ValueError")
          => (result'.outcome = "model_not_found" \/ GenericFallback(result'))]_vars

\* C7: no batch is returned unless the historical tail immediately precedes
\* the forecast: the combined series is strictly ascending in timestamp and
\* the last tail point is no more than the feature window before the first
\* forecast point.
C7_TailPrecedesForecast ==
    Returned =>
        LET n == result.n_historical
            ts == result.combined
        IN  /\ \A i \in 1..(Len(ts) - 1) : ts[i] < ts[i + 1]
            /\ (n >= 1 /\ Len(ts) > n) => ts[n + 1] - ts[n] <= DemandWindow

\* C8: predict_future_anomalies returns no scored batch when the store gave
\* no row or fewer rows than the rolling window of 24.
C8_InsufficientTailFatal ==
    (Returned /\ result.call = "predict_future_anomalies") =>
        result.n_historical >= DemandWindow

\* C9: engineer_features returns one row per input row, in the input's
\* order and with its timestamps and values, for every non-empty series,
\* one of length 1 included, and leaves the caller's table as it was.
C9_OneRowPerInput ==
    [][features'.done =>
          /\ series' = series
          /\ Len(features'.table) = Len(series)
          /\ \A i \in Rows(series) :
                /\ features'.table[i].timestamp = series[i].timestamp
                /\ features'.table[i].demand_mw = series[i].demand_mw]_vars

\* the features of a series of length 1 were computed
C9_Witness ==
    /\ features.done
    /\ Len(series) = 1
    /\ Len(features.table) = 1

\* C10: after engineer_features on a non-empty series no feature cell is
\* NaN, the rolling std, diff, pct_change and z-score of a series of
\* length 1 included.
C10_NoMissingCell ==
    (features.done /\ series # <<>>) =>
        \A i \in Rows(features.table) : \A c \in FloatColumns :
            ~IsNaN(features.table[i][c])

\* the features of the forecast rows engineered over the whole stored
\* series followed by the forecast
FeaturesOverWholeSeries ==
    ForecastFeatures(SortByTimestamp(demand_db), Forecast(request.values))

\* C11: the features of every forecast row engineered over the historical
\* tail followed by the forecast equal those engineered over the longer
\* contiguous series that ends with the same tail and forecast.
C11_NoBoundaryDistortion ==
    features.done => features.table = FeaturesOverWholeSeries

\* C12: the baseline suppression pass is idempotent: applied again, with the
\* same baseline, to the batch it produced it changes no field of any point.
C12_FilterIdempotent ==
    Filtered => BaselineFilter(result.batch, baseline) = result.batch

\* a filtered batch in which the pass suppressed one point and kept the flag
\* of another whose hour has a baseline mean
C12_Witness ==
    /\ Filtered
    /\ \E i \in Rows(result.batch) : Suppressed(i)
    /\ \E j \in Rows(result.batch) :
          result.batch[j].is_anomaly /\ ExpectedMean(j) > 0

\* C13: a prediction call that overlaps a retraining scores with a model, a
\* scaler and a feature_columns list written by one and the same training
\* run.
C13_PartsOfOneRun ==
    Returned =>
        /\ result.scored_with.model = result.scored_with.scaler
        /\ result.scored_with.scaler = result.scored_with.info

\* C14: a call of train_month_model that found fewer than 100 records, none
\* included, ends in the result Failed and writes or alters none of the
\* month's files.
C14_InsufficientTrainsNothing ==
    [][(trainer'.calls = trainer.calls + 1 /\ trainer'.records < MinTrainingRecords)
          => /\ trainer'.results = Append(trainer.results, "Failed")
             /\ trained_models' = trained_models]_vars

\* a month that an earlier call trained got Failed with 99 records, its
\* three files still those of the earlier run
C14_Witness ==
    /\ trainer.records = MinTrainingRecords - 1
    /\ trainer.results # <<>>
    /\ trainer.results[Len(trainer.results)] = "Failed"
    /\ HasMonthModel(months[Len(trainer.results)])

TrainingResults == {"Success", "Failed", "Error"}

\* C15: train_all ends with exactly one result for each of the 12 months,
\* each Success, Failed (insufficient data) or Error; whatever the result of
\* a month, the loop goes on to the next month; and a run that has started
\* comes to its end (here: or uses up the calls the model follows).
C15_OneResultPerMonth ==
    /\ [](/\ Len(trainer.results) = trainer.month_num - 1
          /\ \A i \in Rows(trainer.results) : trainer.results[i] \in TrainingResults
          /\ trainer.pc = "done" <=> Len(trainer.results) = 12)
    /\ [][Len(trainer'.results) = Len(trainer.results) + 1 =>
            /\ trainer'.month_num = trainer.month_num + 1
            /\ trainer'.pc = IF trainer.month_num = 12 THEN "done" ELSE "loop"]_vars
    /\ (trainer.pc # "idle") ~> (trainer.pc = "done" \/ trainer.calls = MaxTrainRuns)

\* a run that ended with twelve results, the last month trained after a
\* month that raised
C15_Witness ==
    /\ trainer.pc = "done"
    /\ Len(trainer.results) = 12
    /\ trainer.results[11] = "Error"
    /\ trainer.results[12] = "Success"

Written == result.saved.written

\* the anomalies of the final batch of the call
FinalAnomalies == Cardinality({i \in Rows(result.batch) : result.batch[i].is_anomaly})

\* one prediction per forecast point, in forecast order, and the two counts
CountsConsistent ==
    LET saved == result.saved
        forecast == Forecast(request.values)
    IN  /\ Len(saved.predictions) = Len(forecast)
        /\ \A i \in Rows(forecast) :
              /\ saved.predictions[i].timestamp = forecast[i].timestamp
              /\ saved.predictions[i].is_anomaly = result.batch[i].is_anomaly
        /\ saved.total_points = Len(saved.predictions)
        /\ saved.anomalies_detected = FinalAnomalies

\* the fraction rate is anomalies_detected / total_points * 100
ExactRate(rate) ==
    IF result.saved.total_points = 0 THEN rate[1] = 0
    ELSE rate[1] * result.saved.total_points = FinalAnomalies * 100 * rate[2]

\* the fraction rate is a number of hundredths, the nearest to
\* anomalies_detected / total_points * 100
RoundedRate(rate) ==
    IF result.saved.total_points = 0 THEN rate[1] = 0
    ELSE /\ rate[2] = 100
         /\ 2 * Abs(rate[1] * result.saved.total_points - FinalAnomalies * 100 * 100)
                <= result.saved.total_points

\* C16 as stated: a written batch holds one prediction per forecast point in
\* forecast order, total_points and anomalies_detected count them, and
\* anomaly_rate equals anomalies_detected / total_points * 100.
C16_SummaryExactRate ==
    Written => (CountsConsistent /\ ExactRate(result.saved.anomaly_rate))

\* C16, amended: as stated, but the anomaly_rate save_predictions writes is
\* anomalies_detected / total_points * 100 rounded to two decimals.
C16_SummaryCounts ==
    Written =>
        /\ CountsConsistent
        /\ IF result.call = "predict_with_model"
           THEN ExactRate(result.saved.anomaly_rate)
           ELSE RoundedRate(result.saved.anomaly_rate)

\* save_predictions wrote a batch of three points of which the baseline
\* filter suppressed one and one is an anomaly
C16_Witness ==
    /\ Written
    /\ result.call = "predict_future_anomalies"
    /\ result.saved.total_points = 3
    /\ result.saved.anomalies_detected = 1
    /\ \E i \in Rows(result.batch) : Suppressed(i)

\* C17: a written batch carries the tag model_month, and the tag names the
\* model that scored the batch: the month's model, or the generic model
\* when the fallback was taken.
C17_TaggedWithScoringModel ==
    Written => result.saved.model_month = result.scored_with.model[1]

\* the statistics a profile holds for an hour, under whichever key
HourEntries(patterns, hour) ==
    {patterns.hourly[k] : k \in {key \in DOMAIN patterns.hourly : HourOfKey(key) = hour}}

\* two cells hold the same float
SameCell(a, b) ==
    /\ a.kind = b.kind
    /\ a.kind = "num" => a.v[1] * b.v[2] = b.v[1] * a.v[2]

SameStats(a, b) == SameCell(a.mean, b.mean) /\ SameCell(a.std, b.std)

Looked == learner.call = "get_expected_demand" /\ learner.outcome = "ok"

\* C18: on a built profile get_expected_demand(hour) returns the hour's own
\* statistics when the data had an observation at that hour, and the
\* overall statistics only when it had none.
C18_LookupOwnHour ==
    Looked =>
        IF HourEntries(learner.patterns, learner.hour) # {}
        THEN \E own \in HourEntries(learner.patterns, learner.hour) :
                 SameStats(learner.expected, own)
        ELSE SameStats(learner.expected, learner.patterns.overall)

\* C19: learn_patterns on an empty demand series fails with an error: it
\* returns no profile, leaves self.patterns as it was and writes no
\* patterns.json.
C19_EmptySeriesFails ==
    [][(LearnPatterns /\ demand_db = {}) =>
           /\ learner'.call = "learn_patterns"
           /\ learner'.outcome \notin {"ok", "none"}
           /\ learner'.patterns = learner.patterns
           /\ learner'.file = learner.file]_vars

\* learn_patterns ran on an empty demand table with no patterns.json on
\* disk, raised, and there is still no patterns.json
C19_Witness ==
    /\ demand_db = {}
    /\ learner.call = "learn_patterns"
    /\ learner.outcome = "KeyError"
    /\ ~ learner.file.exists
    /\ ~ learner.patterns.loaded

Judged == learner.call = "is_anomalous" /\ learner.outcome = "ok"

\* the severity the ladder > 3, > 2.5, > 2 gives a deviation
LadderSeverity(deviation) ==
    IF AbsExceeds(deviation, <<3, 1>>) THEN "critical"
    ELSE IF AbsExceeds(deviation, <<5, 2>>) THEN "high"
    ELSE IF AbsExceeds(deviation, <<2, 1>>) THEN "medium"
    ELSE "normal"

\* the verdict is the one the deviation d calls for
VerdictFor(d) ==
    /\ learner.verdict.deviation = d
    /\ learner.verdict.severity = LadderSeverity(d)
    /\ learner.verdict.is_anomalous <=> AbsExceeds(d, learner.verdict.threshold_std)

\* against the same statistics and threshold, no other value that lies at
\* least as far from the mean gets a lower severity
SeverityMonotone ==
    \A other \in CheckedValues :
        LET again == is_anomalous(learner.verdict.expected, other,
                                  learner.verdict.threshold_std)
        IN  (/\ again.deviation.kind = "num"
             /\ learner.verdict.deviation.kind = "num"
             /\ Abs(again.deviation.v[1]) >= Abs(learner.verdict.deviation.v[1]))
            => SeverityRank(again.severity) >= SeverityRank(learner.verdict.severity)

\* C20: is_anomalous computes deviation = (value - mean) / std from the
\* statistics of the hour, maps it to critical above 3, high above 2.5,
\* medium above 2 and normal otherwise, reports is_anomalous exactly when
\* |deviation| > threshold_std, and the severity never decreases as
\* |deviation| grows.
C20_DeviationOverStd ==
    Judged =>
        /\ VerdictFor(Quotient(learner.verdict.value, learner.verdict.expected.mean,
                               learner.verdict.expected.std))
        /\ SeverityMonotone

\* C20, amended: as stated when the std of the statistics is positive;
\* when it is zero or NaN the deviation is 0, the severity normal and the
\* value not anomalous.
C20_DeviationGuarded ==
    Judged =>
        /\ IF Positive(learner.verdict.expected.std)
           THEN VerdictFor(Quotient(learner.verdict.value,
                                    learner.verdict.expected.mean,
                                    learner.verdict.expected.std))
           ELSE /\ VerdictFor(ZeroDeviation)
                /\ learner.verdict.severity = "normal"
                /\ ~ learner.verdict.is_anomalous
        /\ SeverityMonotone

\* a value exactly 2.5 standard deviations above the mean of its hour,
\* checked against the default threshold 2.5: medium, and not anomalous
C20_Witness ==
    /\ Judged
    /\ Positive(learner.verdict.expected.std)
    /\ learner.verdict.deviation = Num(<<500, 100, 4, 1>>)
    /\ learner.verdict.threshold_std = <<5, 2>>
    /\ learner.verdict.severity = "medium"
    /\ ~ learner.verdict.is_anomalous

\* the columns of the table engineer_features returns
EngineeredColumns == DOMAIN engineer_features(<<[timestamp |-> 0, demand_mw |-> 0]>>, "demand_mw")[1]

ScoredByMonthModel == result.outcome = "ok" /\ result.scored_with.model[1] \in MonthNames

\* C21: a call that scores with a month model builds its matrix from the
\* model's persisted feature_columns, in their order; it fails with no
\* batch when a persisted column is not among the engineered ones, and it
\* fills no column with a default.
C21_PersistedColumnsOrFail ==
    /\ ScoredByMonthModel =>
          /\ result.feature_cols =
                 trained_models[result.scored_with.info[1]].info.feature_columns
          /\ \A k \in 1..Len(result.feature_cols) :
                 result.feature_cols[k] \in EngineeredColumns
          /\ result.defaulted = {}
    /\ result.outcome # "ok" => result.batch = <<>> /\ ~result.saved.written

\* the hour at which the call that returned the batch was made: the
\* forecast begins one hour after it
CallTime == result.batch[1].timestamp - 1

\* C22: a prediction call made in month m while m's three artifacts exist
\* takes the artifact names from the month at call time and scores every
\* forecast point with m's model, m's scaler and m's feature_columns, also
\* when the process was started in an earlier month.
C22_ScoredWithMonthAtCall ==
    (/\ result.call = "predict_future_anomalies"
     /\ result.outcome = "ok"
     /\ HasMonthModel(months[MonthOf(CallTime)])) =>
        LET m == months[MonthOf(CallTime)]
        IN  /\ result.month = m
            /\ result.scored_with =
                   [model |-> <<m, trained_models[m].model.run>>,
                    scaler |-> <<m, trained_models[m].scaler.run>>,
                    info |-> <<m, trained_models[m].info.run>>]
            /\ result.feature_cols = trained_models[m].info.feature_columns
            /\ Len(result.scored) = Len(request.values)
            /\ \A i \in 1..Len(result.scored) :
                   result.scored[i].is_anomaly =
                       IsOutlier(request.scores[i], trained_models[m].model.offset)

\* a predictor started in january has scored a forecast in february with
\* the february model
C22_Witness ==
    /\ result.call = "predict_future_anomalies"
    /\ result.outcome = "ok"
    /\ MonthOf(CallTime) = 2
    /\ result.scored_with.model = <<"february", 2>>
    /\ result.scored_with.scaler = <<"february", 2>>
    /\ result.scored_with.info = <<"february", 2>>

FebruaryStart == DaysPerMonth * 24

\* the last hour of January, the first and a later hour of February, an
\* hour in mid-January, Pacific wall time
MonthDataTimes == {10, FebruaryStart - 1, FebruaryStart, FebruaryStart + 10}

MonthDataRows ==
    [timestamp : MonthDataTimes, demand_mw : {2500}, text : {"offset_colon", "offset_digits"}]

\* timestamp is the key the collectors delete or ignore duplicates by
MonthDataStores ==
    {db \in SUBSET MonthDataRows :
        /\ Cardinality(db) <= 3
        /\ \A r1, r2 \in db : r1.timestamp = r2.timestamp => r1 = r2}

InitMonthData ==
    /\ now = 0
    /\ demand_db \in MonthDataStores
    /\ trained_models = NoMonthModels
    /\ trainer \in {TrainerAtMonth(k) : k \in 1..12}
    /\ baseline = NoBaseline
    /\ detector = LoadedDetector
    /\ request = [values |-> <<>>, scores |-> <<>>]
    /\ result = NoResult
    /\ series = <<>>
    /\ features = NotEngineered
    /\ learner = NewLearner(NoPatternsFile)
    /\ predictions_dir = NoPredictions
    /\ response = NoResponse
    /\ pipeline = PredictorReady
    /\ collector = CollectorIdle

NextMonthData == LoadMonthData

SpecMonthData == InitMonthData /\ [][NextMonthData]_vars

\* the rows of the table whose calendar month in America/Los_Angeles is m
RecordsOfMonth(m) == {r \in demand_db : MonthOf(r.timestamp) = m}

\* C24: the frame load_month_data returns for month m holds exactly the
\* records of the table whose calendar month in America/Los_Angeles is m,
\* and every row engineer_features derives from it has month feature m,
\* the first and the last hours of the month included.
C24_TrainingSetIsTheMonth ==
    [][series' # series =>
        LET m == trainer.month_num
            table == engineer_features(series', "demand_mw")
        IN  /\ {r.timestamp : r \in RecordsOfMonth(m)}
                 = {series'[i].timestamp : i \in 1..Len(series')}
            /\ \A i \in 1..Len(table) : table[i].month = m]_vars

\* the months whose model file, or scaler file, was written by run k
MonthsFittedBy(files, kind, k) ==
    {m \in MonthNames : files[m][kind].exists /\ files[m][kind].run = k}

\* C25: a step of training month m changes no artifact but those of m: the
\* files of every other month and of the generic detector are what they
\* were, whether the call returns True, returns False or raises, and no
\* fitted scaler or model object is written into the files of two months.
C25_TrainingWritesOwnMonthOnly ==
    [][/\ \A a \in ArtifactNames :
             (trainer.month_num \in 1..12 /\ a = months[trainer.month_num])
             \/ trained_models'[a] = trained_models[a]
       /\ \A k \in 1..MaxTrainRuns : \A kind \in {"model", "scaler"} :
             Cardinality(MonthsFittedBy(trained_models', kind, k)) <= 1]_vars

\* February was trained, once with success and once failing on its way,
\* with January's three files in place
C25_Witness ==
    /\ trainer.pc = "loop"
    /\ trainer.month_num = 3
    /\ trainer.results[2] \in {"Success", "Error"}
    /\ trained_models["january"].info.exists
    /\ trained_models["february"].model.exists
    /\ trained_models["generic"] = GenericArtifact

\* C26: in every batch predict_future_anomalies returns, filtered by the
\* baseline or not, a point has severity normal exactly when its
\* is_anomaly is false; a point the filter suppressed is reset to normal.
C26_NormalIffNotAnomaly ==
    (Returned /\ result.call = "predict_future_anomalies") =>
        \A i \in Rows(result.batch) :
            (result.batch[i].severity = "normal") <=> ~result.batch[i].is_anomaly

\* a filtered batch holding a suppressed point, a point that kept its flag
\* and a point that was never flagged
C26_Witness ==
    /\ Filtered
    /\ result.call = "predict_future_anomalies"
    /\ \E i \in Rows(result.batch) :
          Suppressed(i) /\ result.scored[i].severity # "normal"
    /\ \E i \in Rows(result.batch) : result.batch[i].is_anomaly

\* C27: persistence does not change the baseline lookup: right after
\* learn_patterns, get_expected_demand(hour) on the profile in memory
\* returns the statistics it returns on the profile read back from the
\* patterns.json that was saved, for every hour.
C27_LookupSurvivesPersistence ==
    (learner.call = "learn_patterns" /\ learner.outcome = "ok") =>
        \A hour \in LookupHours :
            SameStats(get_expected_demand(learner.patterns, hour),
                      get_expected_demand(json_load(learner.file), hour))

(***************************************************************************)
(* The end of the retrain pipeline on its own: a store with demand, with   *)
(* or without price rows, a models directory that may hold the price files *)
(* of an earlier training, and no generic detector trained yet.            *)
(***************************************************************************)
RetrainValues == {2000, 2800}

RetrainScores == {-90, -40}

PipelineStarts ==
    {[pc |-> "start", prices |-> n, price_model |-> f, price_scaler |-> f, error |-> ""] :
        n \in {0, 1}, f \in BOOLEAN}

InitRetrain ==
    /\ now = 0
    /\ demand_db = RecentRows
    /\ trained_models \in {[models EXCEPT !["generic"] = NoArtifact] :
                               models \in {NoMonthModels, CurrentModels}}
    /\ trainer = TrainerIdle
    /\ baseline \in Baselines
    /\ detector = [demand_model |-> NoFile, demand_scaler |-> NoFile]
    /\ request \in {r \in Requests(RetrainValues, RetrainScores, MaxForecast) :
                        Len(r.values) = Len(r.scores)}
    /\ result = NoResult
    /\ series = <<>>
    /\ features = NotEngineered
    /\ learner = NewLearner(NoPatternsFile)
    /\ predictions_dir = NoPredictions
    /\ response = NoResponse
    /\ pipeline \in PipelineStarts
    /\ collector = CollectorIdle

NextRetrain ==
    \/ TrainAnomalyDetectors
    \/ ConstructPredictor
    \/ PredictFutureAnomalies

SpecRetrain == InitRetrain /\ [][NextRetrain]_vars

\* C28: after offline training on a store with demand and no price data,
\* FutureAnomalyPredictor() succeeds: the constructor does not fail, and the
\* last step of the retrain pipeline does not fail for lack of the price
\* artifacts.
C28_ConstructsWithoutPriceData ==
    (pipeline.prices = 0 /\ pipeline.pc # "start") => pipeline.pc # "failed"

(***************************************************************************)
(* A collection run on its own.                                            *)
(***************************************************************************)
InitCollect ==
    /\ now = 0
    /\ demand_db = {}
    /\ trained_models = NoMonthModels
    /\ trainer = TrainerIdle
    /\ baseline = NoBaseline
    /\ detector = LoadedDetector
    /\ request = [values |-> <<>>, scores |-> <<>>]
    /\ result = NoResult
    /\ series = <<>>
    /\ features = NotEngineered
    /\ learner = NewLearner(NoPatternsFile)
    /\ predictions_dir = NoPredictions
    /\ response = NoResponse
    /\ pipeline = PredictorReady
    /\ collector = CollectorIdle

NextCollect ==
    \/ CollectStart
    \/ CollectDate
    \/ CollectDateError
    \/ CollectReturn

SpecCollect == InitCollect /\ [][NextCollect]_vars

\* C29: a collection run fetches each date of start_date..end_date at most
\* once before it leaves the loop, also when a fetch or the handling of
\* its frame raises.
C29_EachDateAtMostOnce ==
    \A d \in CollectDates : collector.attempts[d] <= 1

\* rows 1..i of the two tables are the same
AgreeUpTo(df1, df2, i) ==
    /\ i <= Len(df1)
    /\ i <= Len(df2)
    /\ \A j \in 1..i : df1[j] = df2[j]

\* C30: engineer_features is causal: for two input series without missing
\* values that agree on their rows up to row i, the features of row i are
\* the same; no feature of a row depends on a later row of the input.
C30_NoLookAhead ==
    features.done =>
        \A df \in SeriesInputs : \A i \in Rows(series) :
            AgreeUpTo(series, df, i) =>
                engineer_features(df, "demand_mw")[i] = features.table[i]

====
